---- MODULE Spec2Model ----
(***************************************************************************)
(* A model of the download manager: one DownloadTask (downloader.py) with  *)
(* its _run thread(s) and segment workers, the files it owns, and the      *)
(* IDMWindow operations (main.py) that drive it and persist it.            *)
(*                                                                         *)
(* Sizes are in bytes.  The resource served at the task's URL has          *)
(* server_size bytes; the byte at offset o is the number o + 1, and 0      *)
(* stands for a byte of a file that nobody has written (a hole).           *)
(*                                                                         *)
(* Times are whole seconds of a clock `now`; an ISO string that names an   *)
(* instant is represented by that instant.  The registry of all the tasks  *)
(* of the window, the downloads table with all its rows and the HLS        *)
(* playlist parser are modelled beside the one task, on their own          *)
(* variables.                                                              *)
(***************************************************************************)
EXTENDS Integers, Sequences, FiniteSets, TLC

\* ---- bounds of the model ----
MaxThreads == 2     \* the threads setting ranges over 1..MaxThreads
MaxSize == 3        \* the resource has 1..MaxSize bytes
MaxRuns == 2        \* start() launches at most MaxRuns _run threads in a behaviour
MaxFaults == 1      \* the network misbehaves at most MaxFaults times
CHUNK_SIZE == 1     \* bytes per iter_content chunk (64 KiB in the source, scaled)
MaxTime == 3        \* the clock and the times of the schedule dialog range over 0..MaxTime
MaxTasks == 2       \* the registry takes new tasks while it holds fewer than MaxTasks
MaxStarts == 2      \* the window is opened MaxStarts times at most
MaxLines == 4       \* a playlist has MaxLines lines at most after its first
MaxBandwidth == 2   \* a BANDWIDTH attribute ranges over 0..MaxBandwidth

VARIABLES
    phase,          \* the process: "running", "closing" (closeEvent returned), "stopped"
    ui,             \* what the UI thread is blocked in: "idle", "pause_join", "remove_join"
    life,           \* the task object: "none", "live" (in self.tasks), "removed"
    threads,        \* DownloadTask.threads
    server_size,    \* size of the resource at the URL
    accept_ranges,  \* whether the server sends Accept-Ranges: bytes
    status, error, total_size, downloaded,   \* DownloadTask fields
    stop_event,     \* DownloadTask._stop_event
    worker_thread,  \* DownloadTask._worker_thread: 0 (None) or the id of a _run thread
    runs,           \* the _run threads, by id
    workers,        \* the _download_range threads of each run, by part index
    nruns,          \* number of _run threads launched so far
    overlapped,     \* whether start() ever launched a run while another was active (history)
    faults,         \* number of network faults so far
    task_temp,      \* whether the parts directory exists
    part_files,     \* part_i.tmp, by part index
    dest_file,      \* dest_folder/filename
    db,             \* the task's row of the downloads table
    shown,          \* the text of the status cell of the task's row of the window's table
    scheduled_start, scheduled_end,   \* DownloadTask schedule boundaries, NoTime for None
    repeat_interval,                  \* DownloadTask.repeat_interval
    now,            \* the clock, in seconds
    submitted,      \* the last submission of the schedule dialog (history): its flaw,
                    \* a bit that every submission flips, whether a tick of
                    \* the timer has rolled the window forward since, and
                    \* whether a tick has started the task since
    tasks,          \* IDMWindow.tasks: the registry, a sequence of tasks (coarse view)
    store,          \* the downloads table: a sequence of rows, in insertion order
    parts_dirs,     \* the parts directories that exist under temp_root, by file name
    dest_files,     \* the complete destination files that exist, by path
    legacy,         \* data/downloads.json: whether it exists, and its entries
    imports,        \* what migrate_from_json has inserted so far (history)
    buttons,        \* the row index that the buttons of each row of the window's
                    \* table captured when _add_table_row made the row
    manifest,       \* the lines of the playlist text the HLS pipeline fetched
    parsed,         \* the result of _parse_hls_playlist
    target,         \* the variant the HLS pipeline fetches for a master playlist
    media,          \* each run's position in _download_hls_media: its segment
                    \* list, the segment and chunk it is at, its open handle
    temp_file,      \* the file {dest_path}.downloading
    media_state,    \* task.media_state: segments_total and segments_done
    fetched,        \* the segment requests issued so far, in order (history)
    probe           \* one range probe: the responses the server gives to
                    \* HEAD and to the fallback GET, and what the probe returned

vars == <<phase, ui, life, threads, server_size, accept_ranges, status, error,
          total_size, downloaded, stop_event, worker_thread, runs, workers,
          nruns, overlapped, faults, task_temp, part_files, dest_file, db, shown,
          scheduled_start, scheduled_end, repeat_interval, now, submitted,
          tasks, store, parts_dirs, dest_files, legacy, imports, buttons,
          manifest, parsed, target, media, temp_file, media_state, fetched,
          probe>>

taskVars == <<status, error, total_size, downloaded, stop_event, worker_thread>>
envVars == <<threads, server_size, accept_ranges>>
diskVars == <<task_temp, part_files, dest_file>>
schedVars == <<scheduled_start, scheduled_end, repeat_interval>>
registryVars == <<tasks, store, parts_dirs, dest_files, legacy, imports, buttons>>
hlsVars == <<manifest, parsed, target>>
mediaVars == <<media, temp_file, media_state, fetched>>
probeVars == <<probe>>
\* what no step of the one task's engine touches
appVars == <<now, submitted, registryVars, hlsVars, mediaVars, probeVars>>

Parts == 0 .. (MaxThreads - 1)
RunIds == 1 .. MaxRuns

Min(a, b) == IF a < b THEN a ELSE b
Max(a, b) == IF a > b THEN a ELSE b

\* math.ceil(a / b) for a >= 0, b >= 1
Ceil(a, b) == (a + b - 1) \div b

NoFile == [exists |-> FALSE, data |-> << >>]
None == "None"
NoTime == -1
NoSched == [start |-> NoTime, end |-> NoTime, repeat |-> 0]
NoRow == [exists |-> FALSE, status |-> "none", error |-> None,
          total_size |-> 0, downloaded |-> 0,
          scheduled_start |-> NoTime, scheduled_end |-> NoTime, repeat_interval |-> 0]
NoRun == [pc |-> "none", pos |-> 0, cancelled |-> FALSE, failed |-> FALSE]
NoPlaylist == [type |-> "none", variants |-> << >>, segments |-> << >>]
NoVariant == [uri |-> "", bandwidth |-> 0]
NoWorker == [pc |-> "none", start |-> 0, end |-> 0, lo |-> 0, hi |-> 0,
             pos |-> 0, fh |-> "none"]

\* The bytes lo .. hi (offsets) of the resource.
Resource(lo, hi) == [k \in 1 .. (hi - lo + 1) |-> lo + k]

FileSize(f) == IF f.exists THEN Len(f.data) ELSE 0

\* Sum of os.path.getsize over the files of the parts directory.
RECURSIVE SumSizes(_, _)
SumSizes(files, n) ==
    IF n = 0 THEN 0 ELSE FileSize(files[n - 1]) + SumSizes(files, n - 1)

PartsOnDisk(files, dir) == IF dir THEN SumSizes(files, MaxThreads) ELSE 0

\* f.write(chunk) through a handle whose offset is pos.
WriteAt(data, pos, chunk) ==
    [k \in 1 .. Max(Len(data), pos + Len(chunk)) |->
        IF k > pos /\ k <= pos + Len(chunk) THEN chunk[k - pos]
        ELSE IF k <= Len(data) THEN data[k] ELSE 0]

RunAlive(r) == r \in RunIds /\ runs[r].pc \notin {"none", "done"}
WorkerAlive(r, i) == workers[r][i].pc \in {"ready", "stream"}
AnyWorkerAlive(r) == \E i \in Parts : WorkerAlive(r, i)
\* A run is active while its _run thread or one of its segment workers lives.
RunActive(r) == RunAlive(r) \/ AnyWorkerAlive(r)

\* Handles on removed files keep writing to an inode no path names any more.
Orphan(ws, removed) ==
    [r \in RunIds |-> [i \in Parts |->
        IF i \in removed /\ ws[r][i].fh = "linked"
        THEN [ws[r][i] EXCEPT !.fh = "orphan"] ELSE ws[r][i]]]

\* ---------------------------------------------------------------------
\* The server, as _get_file_info sees it
\* ---------------------------------------------------------------------
NoHeader == -1

\* The answer to HEAD: Content-Length is the size of the resource.
HeadResponse == [ok |-> TRUE, accept |-> accept_ranges,
                 length |-> server_size, range_total |-> NoHeader]

\* The answer to the fallback GET with Range: bytes=0-0.  A server with
\* range support answers 206 with the one byte asked for; another answers
\* 200 with the whole body.
GetResponse ==
    IF accept_ranges
    THEN [ok |-> TRUE, accept |-> TRUE, length |-> 1, range_total |-> server_size]
    ELSE [ok |-> TRUE, accept |-> FALSE, length |-> server_size,
          range_total |-> NoHeader]

\* HEAD and the fallback GET both fail, or the status is an error.
FailResponse == [ok |-> FALSE, accept |-> FALSE, length |-> NoHeader,
                 range_total |-> NoHeader]

\* supports_range_and_size: <<supports_range, total_size>>, NoHeader for None.
supports_range_and_size(r) ==
    IF ~r.ok THEN <<FALSE, NoHeader>>
    ELSE <<r.accept,
           IF r.length # NoHeader THEN r.length
           ELSE IF r.range_total # NoHeader THEN r.range_total
           ELSE NoHeader>>

\* _run, lines 235-244: the total_size kept after the probe said `probed`.
ReconcileTotal(prior, probed) ==
    LET total == IF probed = NoHeader THEN 0 ELSE probed
    IN  IF prior > 0 /\ total > 0 THEN Max(prior, total)
        ELSE IF total > 0 THEN total
        ELSE prior

\* The body the server sends for Range: bytes=lo-hi; << >> stands for the
\* error status it answers an unsatisfiable range with.
RangeBody(lo, hi) ==
    IF lo <= hi /\ hi < server_size THEN Resource(lo, hi) ELSE << >>

\* ---------------------------------------------------------------------
\* DownloadTask.start / pause / resume
\* ---------------------------------------------------------------------

\* start(): nothing when status is downloading, else a new _run thread.
TaskStart(st) ==
    IF st = "downloading"
    THEN UNCHANGED <<stop_event, worker_thread, runs, nruns, overlapped>>
    ELSE /\ nruns < MaxRuns
         /\ stop_event' = FALSE
         /\ worker_thread' = nruns + 1
         /\ nruns' = nruns + 1
         /\ overlapped' = (overlapped \/ \E r \in RunIds : RunActive(r))
         /\ runs' = [runs EXCEPT ![nruns + 1] = [NoRun EXCEPT !.pc = "begin"]]

\* The runs whose segment workers are at work on parts that are not all
\* complete: the runs a cancellation now interrupts (history).
PartComplete(w, f) == f.exists /\ Len(f.data) = w.end - w.start + 1
Interrupted(r) ==
    /\ runs[r].pc = "monitor"
    /\ \E i \in Parts : WorkerAlive(r, i) /\ ~PartComplete(workers[r][i], part_files[i])
MarkCancelled ==
    [r \in RunIds |-> IF Interrupted(r) THEN [runs[r] EXCEPT !.cancelled = TRUE]
                      ELSE runs[r]]

\* pause(), lines 325-329: set the flag and begin the join; `blocked` is the
\* value ui takes while the caller waits in join(timeout=1.0).
PauseBegin(blocked) ==
    /\ status \in {"downloading", "starting"}
    /\ stop_event' = TRUE
    /\ runs' = MarkCancelled
    /\ IF worker_thread # 0
       THEN ui' = blocked /\ UNCHANGED status
       ELSE status' = "paused" /\ UNCHANGED ui

\* ---------------------------------------------------------------------
\* DownloadTask._run, one thread r
\* ---------------------------------------------------------------------
RunEnds(r) == [runs EXCEPT ![r] = [NoRun EXCEPT !.pc = "done"]]

\* lines 214-215
run_begin(r) ==
    /\ phase # "stopped" /\ runs[r].pc = "begin"
    /\ status' = "starting"
    /\ error' = None
    /\ runs' = [runs EXCEPT ![r].pc = "clear"]
    /\ UNCHANGED <<phase, ui, life, envVars, schedVars, appVars, shown, total_size, downloaded, stop_event,
                   worker_thread, workers, nruns, overlapped, faults, diskVars, db>>

\* line 216
run_clear(r) ==
    /\ phase # "stopped" /\ runs[r].pc = "clear"
    /\ stop_event' = FALSE
    /\ runs' = [runs EXCEPT ![r].pc = "recount"]
    /\ UNCHANGED <<phase, ui, life, envVars, schedVars, appVars, shown, status, error, total_size, downloaded,
                   worker_thread, workers, nruns, overlapped, faults, diskVars, db>>

\* lines 221-226
run_recount(r) ==
    /\ phase # "stopped" /\ runs[r].pc = "recount"
    /\ downloaded' = PartsOnDisk(part_files, task_temp)
    /\ runs' = [runs EXCEPT ![r].pc = "probe"]
    /\ UNCHANGED <<phase, ui, life, envVars, schedVars, appVars, shown, status, error, total_size, stop_event,
                   worker_thread, workers, nruns, overlapped, faults, diskVars, db>>

\* What _get_file_info can return: HEAD's answer, or (a fault) the fallback
\* GET's answer or a failure.
ProbeResponses ==
    {[resp |-> HeadResponse, fault |-> 0]} \cup
    (IF faults < MaxFaults
     THEN {[resp |-> GetResponse, fault |-> 1], [resp |-> FailResponse, fault |-> 1]}
     ELSE {})

\* lines 234-254 up to the choice of the path
run_probe(r) ==
    /\ phase # "stopped" /\ runs[r].pc = "probe"
    /\ \E p \in ProbeResponses :
         LET sr == supports_range_and_size(p.resp)
             total == ReconcileTotal(total_size, sr[2])
         IN  /\ total_size' = total
             /\ faults' = faults + p.fault
             /\ IF ~sr[1] \/ total = 0
                THEN /\ status' = "downloading"
                     /\ runs' = [runs EXCEPT ![r].pc = "single"]
                ELSE /\ UNCHANGED status
                     /\ runs' = [runs EXCEPT ![r].pc = "plan"]
    /\ UNCHANGED <<phase, ui, life, envVars, schedVars, appVars, shown, error, downloaded, stop_event,
                   worker_thread, workers, nruns, overlapped, diskVars, db>>

\* lines 257-265: the range of part i
part_size == Ceil(total_size, threads)
PartStart(i) == i * part_size
PartEnd(i) == Min(PartStart(i) + part_size - 1, total_size - 1)

\* A variant of SkipPart that trusts any part file that exists.
SkipPartIfExists(i) == part_files[i].exists

\* lines 268-272: no thread for a part whose file has the expected size
SkipPart(i) ==
    part_files[i].exists /\ Len(part_files[i].data) = PartEnd(i) - PartStart(i) + 1

\* lines 257-284
run_plan(r) ==
    /\ phase # "stopped" /\ runs[r].pc = "plan"
    /\ LET spawned == {i \in 0 .. (threads - 1) : ~SkipPart(i)}
       IN  IF spawned = {}
           THEN /\ runs' = [runs EXCEPT ![r].pc = "merge"]
                /\ UNCHANGED <<status, workers>>
           ELSE /\ status' = "downloading"
                /\ workers' = [workers EXCEPT ![r] = [i \in Parts |->
                       IF i \in spawned
                       THEN [NoWorker EXCEPT !.pc = "ready", !.start = PartStart(i),
                                             !.end = PartEnd(i)]
                       ELSE NoWorker]]
                /\ runs' = [runs EXCEPT ![r].pc = "monitor"]
    /\ UNCHANGED <<phase, ui, life, envVars, schedVars, appVars, shown, error, total_size, downloaded, stop_event,
                   worker_thread, nruns, overlapped, faults, diskVars, db>>

\* lines 287-292: one evaluation of the loop condition and of the flag
run_monitor(r) ==
    /\ phase # "stopped" /\ runs[r].pc = "monitor"
    /\ IF ~AnyWorkerAlive(r)
       THEN /\ runs' = [runs EXCEPT ![r].pc = "merge"]
            /\ UNCHANGED status
       ELSE /\ stop_event
            /\ status' = "paused"
            /\ runs' = RunEnds(r)
    /\ UNCHANGED <<phase, ui, life, envVars, schedVars, appVars, shown, error, total_size, downloaded, stop_event,
                   worker_thread, workers, nruns, overlapped, faults, diskVars, db>>

\* _merge_parts: the concatenation of the first n part files, which stops
\* at the first missing one (open() raises).
RECURSIVE MergedData(_, _)
MergedData(files, n) ==
    IF n = 0 THEN << >>
    ELSE IF \E j \in 0 .. (n - 2) : ~files[j].exists THEN MergedData(files, n - 1)
    ELSE MergedData(files, n - 1) \o files[n - 1].data

merge_parts(r) ==
    LET all == 0 .. (threads - 1)
    IN  IF \A i \in all : part_files[i].exists
        THEN /\ dest_file' = [exists |-> TRUE, data |-> MergedData(part_files, threads)]
             /\ part_files' = [i \in Parts |-> IF i \in all THEN NoFile ELSE part_files[i]]
             /\ workers' = Orphan(workers, all)
             /\ runs' = [runs EXCEPT ![r].pc = "finish"]
             /\ UNCHANGED <<status, error>>
        ELSE /\ dest_file' = [exists |-> TRUE, data |-> MergedData(part_files, threads)]
             /\ status' = "error"
             /\ error' = "FileNotFoundError"
             /\ runs' = RunEnds(r)
             /\ UNCHANGED <<part_files, workers>>

\* lines 278 and 304 (an exception goes to lines 308-310)
run_merge(r) ==
    /\ phase # "stopped" /\ runs[r].pc = "merge"
    /\ merge_parts(r)
    /\ UNCHANGED <<phase, ui, life, envVars, schedVars, appVars, shown, total_size, downloaded, stop_event,
                   worker_thread, nruns, overlapped, faults, task_temp, db>>

\* lines 279 and 305
run_finish(r) ==
    /\ phase # "stopped" /\ runs[r].pc = "finish"
    /\ status' = "completed"
    /\ runs' = RunEnds(r)
    /\ UNCHANGED <<phase, ui, life, envVars, schedVars, appVars, shown, error, total_size, downloaded, stop_event,
                   worker_thread, workers, nruns, overlapped, faults, diskVars, db>>

\* _single_stream_download, one chunk: the file is opened for append, and
\* the body of the whole resource is streamed into it.
run_single(r) ==
    /\ phase # "stopped" /\ runs[r].pc = "single"
    /\ LET n == Min(CHUNK_SIZE, server_size - runs[r].pos)
           chunk == Resource(runs[r].pos, runs[r].pos + n - 1)
       IN  IF stop_event
           THEN /\ dest_file' = [exists |-> TRUE, data |-> dest_file.data]
                /\ runs' = [runs EXCEPT ![r].pc = "single_end"]
                /\ UNCHANGED downloaded
           ELSE /\ dest_file' = [exists |-> TRUE, data |-> dest_file.data \o chunk]
                /\ downloaded' = downloaded + n
                /\ runs' = [runs EXCEPT ![r].pos = @ + n,
                               ![r].pc = IF runs[r].pos + n = server_size
                                         THEN "single_end" ELSE "single"]
    /\ UNCHANGED <<phase, ui, life, envVars, schedVars, appVars, shown, status, error, total_size, stop_event,
                   worker_thread, workers, nruns, overlapped, faults, task_temp, part_files, db>>

\* The GET of the single stream fails (a fault): lines 205-206, 308-310.
run_single_fail(r) ==
    /\ phase # "stopped" /\ runs[r].pc = "single"
    /\ faults < MaxFaults
    /\ faults' = faults + 1
    /\ status' = "error"
    /\ error' = "ConnectionError"
    /\ runs' = RunEnds(r)
    /\ UNCHANGED <<phase, ui, life, envVars, schedVars, appVars, shown, total_size, downloaded, stop_event,
                   worker_thread, workers, nruns, overlapped, diskVars, db>>

\* lines 250-254
run_single_end(r) ==
    /\ phase # "stopped" /\ runs[r].pc = "single_end"
    /\ status' = IF stop_event THEN "paused" ELSE "completed"
    /\ runs' = RunEnds(r)
    /\ UNCHANGED <<phase, ui, life, envVars, schedVars, appVars, shown, error, total_size, downloaded, stop_event,
                   worker_thread, workers, nruns, overlapped, faults, diskVars, db>>

\* ---------------------------------------------------------------------
\* DownloadTask._download_range, the worker of run r for part i
\* ---------------------------------------------------------------------
WorkerEnds(r, i) == [workers EXCEPT ![r][i] = NoWorker]

\* line 146: the Range header the worker sends
RangeHeader(w, f) == [lo |-> w.start, hi |-> w.end]

\* lines 150-164: skip a complete part; else send the request and open the
\* part file for writing, which truncates it.  The request fails on an
\* error status, the open when the parts directory is gone; the exception
\* ends the thread and nobody sees it.
download_range(r, i) ==
    /\ phase # "stopped" /\ workers[r][i].pc = "ready"
    /\ LET w == workers[r][i]
           f == part_files[i]
           rng == RangeHeader(w, f)
       IN  IF f.exists /\ Len(f.data) = w.end - w.start + 1
           THEN /\ downloaded' = downloaded + Len(f.data)
                /\ workers' = WorkerEnds(r, i)
                /\ UNCHANGED <<part_files, runs>>
           ELSE IF RangeBody(rng.lo, rng.hi) = << >> \/ ~task_temp
           THEN /\ workers' = WorkerEnds(r, i)
                /\ runs' = [runs EXCEPT ![r].failed = TRUE]
                /\ UNCHANGED <<part_files, downloaded>>
           ELSE /\ part_files' = [part_files EXCEPT ![i] = [exists |-> TRUE, data |-> << >>]]
                /\ workers' = [workers EXCEPT ![r][i] =
                                  [w EXCEPT !.pc = "stream", !.lo = rng.lo, !.hi = rng.hi,
                                            !.pos = 0, !.fh = "linked"]]
                /\ UNCHANGED <<downloaded, runs>>
    /\ UNCHANGED <<phase, ui, life, envVars, schedVars, appVars, shown, status, error, total_size, stop_event,
                   worker_thread, nruns, overlapped, faults, task_temp, dest_file, db>>

\* lines 165-171: the next chunk of the body; return when the flag is set,
\* else write it and count it.  The thread ends after the last chunk.
download_range_chunk(r, i) ==
    /\ phase # "stopped" /\ workers[r][i].pc = "stream"
    /\ LET w == workers[r][i]
           body == RangeBody(w.lo, w.hi)
           n == Min(CHUNK_SIZE, Len(body) - w.pos)
           chunk == SubSeq(body, w.pos + 1, w.pos + n)
       IN  IF stop_event
           THEN /\ workers' = WorkerEnds(r, i)
                /\ UNCHANGED <<part_files, downloaded>>
           ELSE /\ part_files' =
                      IF w.fh = "linked"
                      THEN [part_files EXCEPT ![i].data = WriteAt(@, w.pos, chunk)]
                      ELSE part_files
                /\ downloaded' = downloaded + n
                /\ workers' = IF w.pos + n = Len(body) THEN WorkerEnds(r, i)
                              ELSE [workers EXCEPT ![r][i].pos = @ + n]
    /\ UNCHANGED <<phase, ui, life, envVars, schedVars, appVars, shown, status, error, total_size, stop_event,
                   worker_thread, runs, nruns, overlapped, faults, task_temp, dest_file, db>>

\* A fault: the request fails before the body (status not 200/206, or a
\* transport error), or the connection drops in the middle of the body.
\* line 174 re-raises in the worker's thread, which ends.
download_range_fail(r, i) ==
    /\ phase # "stopped" /\ WorkerAlive(r, i)
    /\ faults < MaxFaults
    /\ faults' = faults + 1
    /\ workers' = WorkerEnds(r, i)
    /\ runs' = [runs EXCEPT ![r].failed = TRUE]
    /\ UNCHANGED <<phase, ui, life, envVars, schedVars, appVars, shown, taskVars, nruns, overlapped, diskVars, db>>

\* ---------------------------------------------------------------------
\* The schedule of the task and the scheduler (_enforce_schedule)
\* ---------------------------------------------------------------------
Times == 0 .. MaxTime

\* seconds of the choices of the repeat combo box (an hour, a day and a
\* week in the source; one scaled period here)
REPEAT_CHOICES == {0, 2}

Sched == [start |-> scheduled_start, end |-> scheduled_end, repeat |-> repeat_interval]

\* update_schedule(start, end, repeat_interval)
update_schedule(sch) ==
    /\ scheduled_start' = sch.start
    /\ scheduled_end' = sch.end
    /\ repeat_interval' = sch.repeat

\* A variant of AdvanceWindow that rolls the window forward once only.
AdvanceWindowOnce(s, e, rp, t) == IF e <= t THEN <<s + rp, e + rp>> ELSE <<s, e>>

\* _advance_schedule, lines 580-583: both boundaries set
RECURSIVE AdvanceWindow(_, _, _, _)
AdvanceWindow(s, e, rp, t) ==
    IF e <= t THEN AdvanceWindow(s + rp, e + rp, rp, t) ELSE <<s, e>>

\* lines 584-586: a start and no end
RECURSIVE AdvanceStart(_, _, _)
AdvanceStart(s, rp, t) == IF s + rp <= t THEN AdvanceStart(s + rp, rp, t) ELSE s

\* lines 587-589: an end and no start
RECURSIVE AdvanceEnd(_, _, _)
AdvanceEnd(e, rp, t) == IF e <= t THEN AdvanceEnd(e + rp, rp, t) ELSE e

\* _advance_schedule: the schedule after the elapsed windows are rolled
\* forward (it differs from sch exactly when the source's `updated` is set)
advance_schedule(sch, t) ==
    IF sch.repeat <= 0 THEN sch
    ELSE IF sch.start # NoTime /\ sch.end # NoTime
    THEN LET w == AdvanceWindow(sch.start, sch.end, sch.repeat, t)
         IN  [sch EXCEPT !.start = w[1], !.end = w[2]]
    ELSE IF sch.start # NoTime
    THEN [sch EXCEPT !.start = AdvanceStart(sch.start, sch.repeat, t)]
    ELSE IF sch.end # NoTime
    THEN [sch EXCEPT !.end = AdvanceEnd(sch.end, sch.repeat, t)]
    ELSE sch

\* _enforce_schedule, lines 611, 617, 627, 638: where t lies
Window(s, e, t) ==
    IF s = NoTime /\ e = NoTime THEN "none"
    ELSE IF s # NoTime /\ t < s THEN "before"
    ELSE IF s # NoTime /\ t >= s /\ (e = NoTime \/ t < e) THEN "within"
    ELSE IF e # NoTime /\ t >= e THEN "after"
    ELSE "open"

\* _enforce_schedule for a task without a schedule (lines 611-615)
enforce_schedule(st) == IF st = "scheduled" THEN "queued" ELSE st

\* the status _enforce_schedule leaves, st being the status after its
\* pause() if it called one
EnforceStatus(st, sch, w) ==
    CASE w = "none" -> enforce_schedule(st)
      [] w = "before" -> "scheduled"
      [] w = "after" -> IF sch.repeat > 0 THEN "scheduled"
                        ELSE IF st \notin {"paused", "queued", "completed"} THEN "paused"
                        ELSE st
      [] OTHER -> st

\* A variant of NextStart that moves the start also when an end is set.
NextStartAlways(sch) == [sch EXCEPT !.start = sch.start + sch.repeat]

\* lines 632-635: within the window of a repeating schedule without end,
\* the next start is scheduled
NextStart(sch) ==
    IF sch.repeat > 0 /\ sch.end = NoTime
    THEN [start |-> sch.start + sch.repeat, end |-> NoTime, repeat |-> sch.repeat]
    ELSE sch

\* lines 643-658: after the end of the window
NextWindow(sch) ==
    IF sch.repeat > 0
    THEN [start |-> IF sch.start # NoTime THEN sch.start + sch.repeat ELSE NoTime,
          end |-> sch.end + sch.repeat, repeat |-> sch.repeat]
    ELSE NoSched

\* the schedule _enforce_schedule leaves, sch being the advanced one
EnforceSched(sch, w) ==
    CASE w = "within" -> NextStart(sch)
      [] w = "after" -> NextWindow(sch)
      [] OTHER -> sch

\* A variant of Starts that leaves a scheduled task alone.
StartsUnlessScheduled(st, w) == w = "within" /\ st \in {"queued", "paused", "error"}

\* lines 628-631: the task is started
Starts(st, w) == w = "within" /\ st \in {"queued", "paused", "scheduled", "error"}

\* lines 618 and 639: pause() is called
Pauses(st, w) == w \in {"before", "after"} /\ st = "downloading"

\* ---------------------------------------------------------------------
\* IDMWindow: the operations on the task and its row of the store
\* ---------------------------------------------------------------------
Usable == phase = "running" /\ ui = "idle"

\* to_dict and the columns save_task writes
RowOf(st, err, total, done, sch) ==
    [exists |-> TRUE, status |-> st, error |-> err, total_size |-> total,
     downloaded |-> done, scheduled_start |-> sch.start,
     scheduled_end |-> sch.end, repeat_interval |-> sch.repeat]

\* save_task: insert the row or update the one with the task's key
save_task(st, err, total, done, sch) == RowOf(st, err, total, done, sch)

\* save_tasks: rows of unfinished tasks are written, rows of completed ones deleted
save_tasks ==
    IF life # "live" THEN db
    ELSE IF status # "completed"
         THEN save_task(status, error, total_size, downloaded, Sched)
    ELSE NoRow

\* is_alive()
is_alive == worker_thread # 0 /\ RunAlive(worker_thread)

\* add_task: construct the task (its parts directory is created), append
\* it, save it, and start it when auto_start is set.
add_task(auto_start) ==
    /\ Usable /\ life = "none"
    /\ life' = "live"
    /\ task_temp' = TRUE
    /\ status' = "queued" /\ error' = None /\ total_size' = 0 /\ downloaded' = 0
    /\ update_schedule(NoSched)
    /\ shown' = "queued"
    /\ db' = save_task("queued", None, 0, 0, NoSched)
    /\ IF auto_start
       THEN TaskStart("queued")
       ELSE stop_event' = FALSE /\ worker_thread' = 0
            /\ UNCHANGED <<runs, nruns, overlapped>>
    /\ UNCHANGED <<phase, ui, envVars, appVars, workers, faults, part_files, dest_file>>

\* start_task
start_task ==
    /\ Usable /\ life = "live"
    /\ status # "downloading"
    /\ TaskStart(status)
    /\ UNCHANGED <<phase, ui, life, envVars, schedVars, appVars, shown, status, error, total_size, downloaded,
                   workers, faults, diskVars, db>>

\* resume_task -> resume()
resume_task ==
    /\ Usable /\ life = "live"
    /\ status \in {"paused", "queued", "error"}
    /\ TaskStart(status)
    /\ UNCHANGED <<phase, ui, life, envVars, schedVars, appVars, shown, status, error, total_size, downloaded,
                   workers, faults, diskVars, db>>

\* pause_task -> pause(), up to the join
pause_task ==
    /\ Usable /\ life = "live"
    /\ PauseBegin("pause_join")
    /\ UNCHANGED <<phase, life, envVars, schedVars, appVars, shown, error, total_size, downloaded, worker_thread,
                   workers, nruns, overlapped, faults, diskVars, db>>

\* pause(), line 330: the join returned, because the thread ended or
\* because its timeout of 1 s expired.
pause_return ==
    /\ phase = "running" /\ ui = "pause_join"
    /\ status' = "paused"
    /\ ui' = "idle"
    /\ UNCHANGED <<phase, life, envVars, schedVars, appVars, shown, error, total_size, downloaded, stop_event,
                   worker_thread, runs, workers, nruns, overlapped, faults, diskVars, db>>

\* remove_task, lines 832-837: delete the parts directory and the row, and
\* take the task out of the registry.
RemoveRest ==
    /\ task_temp' = FALSE
    /\ part_files' = [i \in Parts |-> NoFile]
    /\ workers' = Orphan(workers, Parts)
    /\ db' = NoRow
    /\ shown' = "none"
    /\ life' = "removed"

\* remove_task, when pause() has nothing to join (or is not called)
remove_task ==
    /\ Usable /\ life = "live"
    /\ IF is_alive /\ status \in {"downloading", "starting"}
       THEN /\ PauseBegin("remove_join")
            /\ UNCHANGED <<life, task_temp, part_files, workers, db, shown>>
       ELSE /\ RemoveRest
            /\ UNCHANGED <<ui, status, stop_event, runs>>
    /\ UNCHANGED <<phase, envVars, schedVars, appVars, error, total_size, downloaded, worker_thread,
                   nruns, overlapped, faults, dest_file>>

\* remove_task, after the join of pause() returned
remove_task_join ==
    /\ phase = "running" /\ ui = "remove_join"
    /\ status' = "paused"
    /\ ui' = "idle"
    /\ RemoveRest
    /\ UNCHANGED <<phase, envVars, schedVars, appVars, error, total_size, downloaded, stop_event,
                   worker_thread, runs, nruns, overlapped, faults, dest_file>>

\* refresh_table for the task, lines 460-507: the schedule is enforced and
\* the task saved unless it is completed and its schedule was not updated.
\* st, sch and row are the task's status and schedule and its row when the
\* tick begins; `flagged` tells that pause() has set the flag earlier in
\* the same handler.  A pause() of a task that has a thread blocks the UI
\* thread in join(timeout=1.0): the tick goes on when the join returns.
Tick(st, sch, row, flagged) ==
    LET adv == advance_schedule(sch, now)
        w == Window(adv.start, adv.end, now)
    IN  IF Pauses(st, w) /\ worker_thread # 0
        THEN /\ ui' = "tick_join"
             /\ stop_event' = TRUE
             /\ runs' = MarkCancelled
             /\ update_schedule(adv)
             /\ status' = st
             /\ db' = row
             /\ UNCHANGED shown
             /\ UNCHANGED <<error, worker_thread, nruns, overlapped>>
        ELSE LET st1 == IF Pauses(st, w) THEN "paused" ELSE st
                 st2 == EnforceStatus(st1, adv, w)
                 sch2 == EnforceSched(adv, w)
                 schedule_updated == adv # sch \/ sch2 # adv \/ w = "after"
             IN  /\ ui' = "idle"
                 /\ status' = st2
                 /\ shown' = st2
                 /\ update_schedule(sch2)
                 /\ IF Starts(st1, w)
                    THEN error' = None /\ TaskStart(st1)
                    ELSE /\ UNCHANGED <<error, worker_thread, nruns, overlapped>>
                         /\ IF Pauses(st, w) \/ flagged
                            THEN stop_event' = TRUE /\ runs' = MarkCancelled
                            ELSE UNCHANGED <<stop_event, runs>>
                 /\ db' = IF st2 # "completed" \/ schedule_updated
                          THEN save_task(st2, error', total_size, downloaded, sch2)
                          ELSE row

\* whether the tick starts the task (history)
TickStarts(st, sch) ==
    LET adv == advance_schedule(sch, now)
    IN  Starts(st, Window(adv.start, adv.end, now))

\* refresh_table: the timer's tick
refresh_table ==
    /\ Usable /\ life = "live"
    /\ Tick(status, Sched, db, FALSE)
    /\ submitted' = [submitted EXCEPT !.rolled = @ \/ advance_schedule(Sched, now) # Sched,
                                      !.started = @ \/ TickStarts(status, Sched)]
    /\ UNCHANGED <<phase, life, envVars, now, registryVars, hlsVars, mediaVars, probeVars, total_size, downloaded,
                   workers, faults, diskVars>>

\* refresh_table, after the join of its pause() returned: pause() sets
\* status paused (line 330) and _enforce_schedule goes on
refresh_table_join ==
    /\ phase = "running" /\ ui = "tick_join"
    /\ Tick("paused", Sched, db, FALSE)
    /\ UNCHANGED <<phase, life, envVars, appVars, total_size, downloaded,
                   workers, faults, diskVars>>

\* ScheduleDialog: what the user has set.  start and end are NoTime when
\* their check box is off; combo is the choice of the repeat combo box.
Dialogs == [start : Times \cup {NoTime}, end : Times \cup {NoTime}, combo : REPEAT_CHOICES]

\* ScheduleDialog.get_values: the repeat is read only with a start
get_values(d) ==
    [start |-> d.start, end |-> d.end,
     repeat |-> IF d.start # NoTime THEN d.combo ELSE 0]

\* A variant of accept that lets an end equal to the start through.
accept_equal(v) ==
    /\ ~(v.end # NoTime /\ v.start # NoTime /\ v.end < v.start)
    /\ ~(v.repeat > 0 /\ v.start = NoTime)

\* ScheduleDialog.accept: whether the values are accepted
accept(v) ==
    /\ ~(v.end # NoTime /\ v.start # NoTime /\ v.end <= v.start)
    /\ ~(v.repeat > 0 /\ v.start = NoTime)

\* What is wrong with the values of a schedule (history of the submissions)
Flaw(v) ==
    IF v.end # NoTime /\ v.start # NoTime /\ v.end <= v.start THEN "end_not_after_start"
    ELSE IF v.repeat > 0 /\ v.start = NoTime THEN "repeat_without_start"
    ELSE "none"

\* schedule_task: the dialog is submitted with d.  Rejected values leave
\* the dialog open and the task alone.  Accepted ones are stored, the
\* status is adapted (after a pause() of a running task whose start lies
\* ahead), the task is saved and refresh_table() runs.
schedule_task(d) ==
    /\ Usable /\ life = "live"
    /\ LET v == get_values(d)
           future == v.start # NoTime /\ now < v.start
           st1 == IF future THEN "scheduled"
                  ELSE IF v = NoSched /\ status = "scheduled" THEN "queued"
                  ELSE status
       IN  /\ submitted' = [flaw |-> Flaw(v), n |-> 1 - submitted.n, rolled |-> FALSE,
                            started |-> accept(v) /\ TickStarts(st1, v)]
           /\ IF ~accept(v)
              THEN UNCHANGED <<ui, taskVars, runs, nruns, overlapped, schedVars, db, shown>>
              ELSE IF future /\ status = "downloading" /\ worker_thread # 0
              THEN /\ ui' = "schedule_join"
                   /\ stop_event' = TRUE
                   /\ runs' = MarkCancelled
                   /\ update_schedule(v)
                   /\ UNCHANGED <<status, error, total_size, downloaded, worker_thread,
                                  nruns, overlapped, db, shown>>
              ELSE /\ Tick(st1, v, save_task(st1, error, total_size, downloaded, v),
                           future /\ status = "downloading")
                   /\ UNCHANGED <<total_size, downloaded>>
    /\ UNCHANGED <<phase, life, envVars, now, registryVars, hlsVars, mediaVars, probeVars, workers, faults, diskVars>>

\* schedule_task, after the join of its pause() returned: lines 809-821
schedule_task_join ==
    /\ phase = "running" /\ ui = "schedule_join"
    /\ Tick("scheduled", Sched,
            save_task("scheduled", error, total_size, downloaded, Sched), FALSE)
    /\ UNCHANGED <<phase, life, envVars, appVars, total_size, downloaded,
                   workers, faults, diskVars>>

\* A second passes.  The UI thread blocks for a second at most, which the
\* clock's granularity does not show.
clock ==
    /\ ui = "idle" /\ now < MaxTime
    /\ now' = now + 1
    /\ UNCHANGED <<phase, ui, life, envVars, schedVars, submitted, registryVars, hlsVars, mediaVars, probeVars, shown,
                   taskVars, runs, workers, nruns, overlapped, faults, diskVars, db>>

\* closeEvent: the shutdown handler
closeEvent ==
    /\ Usable
    /\ db' = save_tasks
    /\ phase' = "closing"
    /\ UNCHANGED <<ui, life, envVars, schedVars, appVars, shown, taskVars, runs, workers, nruns, overlapped, faults, diskVars>>

\* The process ends: its threads (all daemons) and its memory are gone,
\* its files and the store stay.
ProcessEnds ==
    /\ phase' = "stopped"
    /\ ui' = "idle"
    /\ life' = "none"
    /\ status' = "queued" /\ error' = None /\ total_size' = 0 /\ downloaded' = 0
    /\ stop_event' = FALSE /\ worker_thread' = 0
    /\ runs' = [r \in RunIds |-> NoRun]
    /\ workers' = [r \in RunIds |-> [i \in Parts |-> NoWorker]]
    /\ update_schedule(NoSched)
    /\ shown' = "none"
    /\ UNCHANGED <<envVars, appVars, nruns, overlapped, faults, diskVars, db>>

\* The application quits after closeEvent.
process_exit == phase = "closing" /\ ProcessEnds

\* The process is killed.
crash == phase = "running" /\ ProcessEnds

\* A variant of from_dict that keeps the row's downloaded.
from_dict_stale(row, files) ==
    [status |-> row.status, error |-> row.error, total_size |-> row.total_size,
     downloaded |-> row.downloaded,
     sched |-> [start |-> row.scheduled_start, end |-> row.scheduled_end,
                repeat |-> row.repeat_interval]]

\* from_dict: the task of a row; downloaded is recounted from the parts
\* directory, which the constructor has just made sure exists.
from_dict(row, files) ==
    [status |-> row.status, error |-> row.error, total_size |-> row.total_size,
     downloaded |-> PartsOnDisk(files, TRUE),
     sched |-> [start |-> row.scheduled_start, end |-> row.scheduled_end,
                repeat |-> row.repeat_interval]]

\* A variant of Restorable that takes a file for complete also when the
\* row's total_size is 0.
RestorableAnySize(row) ==
    LET file_complete == dest_file.exists /\ Len(dest_file.data) >= row.total_size
    IN  /\ row.exists /\ row.status # "completed"
        /\ ~file_complete
        /\ (task_temp \/ ~dest_file.exists)

\* load_tasks, lines 1077-1088: whether the row is restored
Restorable(row) ==
    LET file_complete == dest_file.exists /\ row.total_size > 0
                         /\ Len(dest_file.data) >= row.total_size
    IN  /\ row.exists /\ row.status # "completed"
        /\ ~file_complete
        /\ (task_temp \/ ~dest_file.exists)

\* IDMWindow.__init__: init_database and load_tasks
load_tasks ==
    /\ phase = "stopped"
    /\ phase' = "running"
    /\ IF Restorable(db)
       THEN LET t == from_dict(db, part_files)
            IN  /\ life' = "live"
                /\ task_temp' = TRUE
                /\ status' = t.status /\ error' = t.error
                /\ total_size' = t.total_size /\ downloaded' = t.downloaded
                /\ update_schedule(t.sched)
                /\ shown' = t.status
       ELSE UNCHANGED <<life, task_temp, status, error, total_size, downloaded, schedVars,
                        shown>>
    /\ UNCHANGED <<ui, envVars, appVars, stop_event, worker_thread, runs, workers, nruns, overlapped, faults,
                   part_files, dest_file, db>>

\* ---------------------------------------------------------------------
\* The specification
\* ---------------------------------------------------------------------
InitWith(f) ==
    /\ phase = "running" /\ ui = "idle" /\ life = "none"
    /\ threads \in 1 .. MaxThreads
    /\ server_size \in 1 .. MaxSize
    /\ accept_ranges \in BOOLEAN
    /\ status = "queued" /\ error = None /\ total_size = 0 /\ downloaded = 0
    /\ stop_event = FALSE /\ worker_thread = 0
    /\ runs = [r \in RunIds |-> NoRun]
    /\ workers = [r \in RunIds |-> [i \in Parts |-> NoWorker]]
    /\ nruns = 0 /\ overlapped = FALSE /\ faults = f
    /\ task_temp = FALSE
    /\ part_files = [i \in Parts |-> NoFile]
    /\ dest_file = NoFile
    /\ db = NoRow /\ shown = "none"
    /\ scheduled_start = NoTime /\ scheduled_end = NoTime /\ repeat_interval = 0
    /\ now = 0
    /\ submitted = [flaw |-> "none", n |-> 0, rolled |-> FALSE, started |-> FALSE]

\* The coarse registry and the table are empty and there is no legacy file.
RegistryIdle ==
    /\ tasks = << >> /\ store = << >>
    /\ parts_dirs = {} /\ dest_files = {}
    /\ legacy = [exists |-> FALSE, entries |-> << >>]
    /\ imports = << >>
    /\ buttons = << >>

\* No playlist has been fetched.
HlsIdle == manifest = << >> /\ parsed = NoPlaylist /\ target = NoVariant

NoMedia == [pc |-> "none", segments |-> << >>, k |-> 0, at |-> 0,
            fh |-> "none", pos |-> 0, redirects |-> 0]
NoMediaState == [segments_total |-> 0, segments_done |-> 0]

\* No media run has begun and {dest_path}.downloading does not exist.
MediaIdle ==
    /\ media = [r \in RunIds |-> NoMedia]
    /\ temp_file = NoFile
    /\ media_state = NoMediaState
    /\ fetched = << >>

NoResponse == [status |-> 0, accept_ranges |-> "", content_length |-> NoHeader,
               content_range |-> NoHeader]
NoResult == [done |-> FALSE, raised |-> FALSE, supports |-> FALSE,
             total |-> NoHeader, path |-> "none"]
NoProbe == [head |-> NoResponse, get |-> NoResponse, prior |-> 0,
            result |-> NoResult]

\* No probe is being looked at.
ProbeIdle == probe = NoProbe

\* The window is open, the store is empty and no task has been added.
Init == InitWith(0) /\ RegistryIdle /\ HlsIdle /\ MediaIdle /\ ProbeIdle

RunStep ==
    \E r \in RunIds :
        \/ run_begin(r) \/ run_clear(r) \/ run_recount(r) \/ run_probe(r)
        \/ run_plan(r) \/ run_monitor(r) \/ run_merge(r) \/ run_finish(r)
        \/ run_single(r) \/ run_single_fail(r) \/ run_single_end(r)

WorkerStep ==
    \E r \in RunIds, i \in Parts :
        \/ download_range(r, i) \/ download_range_chunk(r, i)
        \/ download_range_fail(r, i)

UserStep ==
    \/ \E a \in BOOLEAN : add_task(a)
    \/ start_task \/ resume_task \/ pause_task \/ pause_return
    \/ remove_task \/ remove_task_join

\* The download engine under the user's commands.  The timer's tick is left
\* out: for a task without a schedule it only writes db, which no step of
\* the engine reads.
Next == RunStep \/ WorkerStep \/ UserStep

Spec == Init /\ [][Next]_vars

\* The task and its row of the store over the life of the process and
\* across restarts, with a network that never fails (its faults are used up
\* from the start).
InitStore == InitWith(MaxFaults) /\ RegistryIdle /\ HlsIdle /\ MediaIdle /\ ProbeIdle

RunStepStore ==
    \E r \in RunIds :
        \/ run_begin(r) \/ run_clear(r) \/ run_recount(r) \/ run_probe(r)
        \/ run_plan(r) \/ run_monitor(r) \/ run_merge(r) \/ run_finish(r)
        \/ run_single(r) \/ run_single_end(r)

WorkerStepStore ==
    \E r \in RunIds, i \in Parts : download_range(r, i) \/ download_range_chunk(r, i)

NextStore ==
    \/ RunStepStore \/ WorkerStepStore \/ UserStep
    \/ refresh_table \/ closeEvent \/ process_exit \/ crash \/ load_tasks

SpecStore == InitStore /\ [][NextStore]_vars

\* The task under the schedule dialog, the timer's tick and the clock,
\* with one segment, a resource of one byte and a network that never
\* fails.  The task is started once at most (all
\* the _run threads of a behaviour but one are used up from the start).
InitSched ==
    /\ phase = "running" /\ ui = "idle" /\ life = "none"
    /\ threads = 1 /\ server_size = 1 /\ accept_ranges \in BOOLEAN
    /\ status = "queued" /\ error = None /\ total_size = 0 /\ downloaded = 0
    /\ stop_event = FALSE /\ worker_thread = 0
    /\ runs = [r \in RunIds |-> NoRun]
    /\ workers = [r \in RunIds |-> [i \in Parts |-> NoWorker]]
    /\ nruns = MaxRuns - 1 /\ overlapped = FALSE /\ faults = MaxFaults
    /\ task_temp = FALSE
    /\ part_files = [i \in Parts |-> NoFile]
    /\ dest_file = NoFile
    /\ db = NoRow /\ shown = "none"
    /\ scheduled_start = NoTime /\ scheduled_end = NoTime /\ repeat_interval = 0
    /\ now = 0
    /\ submitted = [flaw |-> "none", n |-> 0, rolled |-> FALSE, started |-> FALSE]
    /\ RegistryIdle /\ HlsIdle /\ MediaIdle /\ ProbeIdle

NextSched ==
    \/ RunStepStore \/ WorkerStepStore
    \/ \E a \in BOOLEAN : add_task(a)
    \/ \E d \in Dialogs : schedule_task(d)
    \/ schedule_task_join
    \/ refresh_table \/ refresh_table_join
    \/ clock

SpecSched == InitSched /\ [][NextSched]_vars

\* The threads of the task get their turn: a _run thread and a segment
\* worker that can take a step take one sooner or later.
SpecSchedFair ==
    InitSched /\ [][NextSched]_vars /\ WF_vars(RunStepStore) /\ WF_vars(WorkerStepStore)

\* ---------------------------------------------------------------------
\* The registry of the window, the downloads table and the directories
\* under temp_root, for several tasks.  A download is seen coarsely here:
\* a started task gets its size and the status downloading, and ends
\* completed, with its destination file written, unless it is paused.  The
\* variables of the single task above stay as they are.
\* ---------------------------------------------------------------------
\* self.default_folder, the one folder every task of a behaviour goes to
default_folder == "downloads"

\* A URL is a host and the last segment of its path (without escapes)
NoUrl == [host |-> "", name |-> ""]
Urls == {[host |-> "a", name |-> "f"], [host |-> "b", name |-> "f"]}

safe_filename_from_url(url) == IF url.name = "" THEN "download" ELSE url.name

\* A file name is a base name, followed by ".ts" or not
WithTs(filename) ==
    IF filename[Len(filename)] = ".ts" THEN filename ELSE Append(filename, ".ts")

\* DownloadTask.__init__: the file name and the parts directory (named by
\* that file name) come from the URL
DownloadTask(url, dest_folder, manifest_url, origin) ==
    [url |-> url, dest_folder |-> dest_folder,
     filename |-> <<safe_filename_from_url(url)>>,
     task_temp |-> safe_filename_from_url(url),
     status |-> "queued", total_size |-> 0, alive |-> FALSE,
     manifest_url |-> manifest_url, origin |-> origin]

dest_path(t) == <<t.dest_folder, t.filename>>

\* DownloadTask.start, up to the point where _run knows the size of the
\* resource (a stream has none)
Start(t) ==
    IF t.status = "downloading" THEN t
    ELSE [t EXCEPT !.alive = TRUE, !.status = "downloading",
                   !.total_size = IF t.manifest_url = NoUrl THEN 1 ELSE 0]

\* DownloadTask.pause
Pause(t) ==
    IF t.status \in {"downloading", "starting"}
    THEN [t EXCEPT !.alive = FALSE, !.status = "paused"]
    ELSE t

KeyOf(x) == <<x.url, x.dest_folder>>

\* A variant of SameKey that looks at the status too.
SameKeyAndStatus(row, t) == KeyOf(row) = KeyOf(t) /\ row.status = t.status

\* save_task: WHERE url = ? AND dest_folder = ?
SameKey(row, t) == KeyOf(row) = KeyOf(t)

\* the columns of a task (to_dict) that this view follows
ToRow(t) ==
    [url |-> t.url, dest_folder |-> t.dest_folder, filename |-> t.filename,
     status |-> t.status, total_size |-> t.total_size]

\* save_task on the table st: UPDATE the row of the task's key if the
\* SELECT finds one, INSERT a row otherwise
SaveTask(st, t) ==
    IF \E i \in DOMAIN st : SameKey(st[i], t)
    THEN [i \in DOMAIN st |-> IF SameKey(st[i], t) THEN ToRow(t) ELSE st[i]]
    ELSE Append(st, ToRow(t))

\* delete_task
DeleteTask(st, url, dest_folder) ==
    SelectSeq(st, LAMBDA row : ~(row.url = url /\ row.dest_folder = dest_folder))

\* save_tasks: every task in turn, saved unless completed, deleted if so
RECURSIVE SaveTasks(_, _)
SaveTasks(st, ts) ==
    IF ts = << >> THEN st
    ELSE SaveTasks(IF Head(ts).status # "completed"
                   THEN SaveTask(st, Head(ts))
                   ELSE DeleteTask(st, Head(ts).url, Head(ts).dest_folder),
                   Tail(ts))

\* the loop of refresh_table: every task that is not completed is saved
RECURSIVE SaveUnfinished(_, _)
SaveUnfinished(st, ts) ==
    IF ts = << >> THEN st
    ELSE SaveUnfinished(IF Head(ts).status # "completed"
                        THEN SaveTask(st, Head(ts)) ELSE st,
                        Tail(ts))

\* what the window holds: the registry, the table and the directories
World == [tasks |-> tasks, store |-> store, dirs |-> parts_dirs]

\* a new task enters the registry: appended, saved, then started if
\* auto_start is on
Enter(w, t, auto_start) ==
    [tasks |-> Append(w.tasks, IF auto_start THEN Start(t) ELSE t),
     store |-> SaveTask(w.store, t),
     dirs |-> w.dirs \cup {t.task_temp}]

\* The payloads the bridge queues: both kinds always carry their URL
DownloadPayloads == [kind : {"download"}, url : Urls, filename : {None, "x"}]
MediaPayloads == [kind : {"media"}, manifest_url : Urls, title : {None}]
Payloads == DownloadPayloads \cup MediaPayloads

handle_download_request(w, payload, auto_start) ==
    IF \E i \in DOMAIN w.tasks :
          w.tasks[i].url = payload.url /\ w.tasks[i].status # "completed"
    THEN w
    ELSE LET task == DownloadTask(payload.url, default_folder, NoUrl, "download")
         IN  Enter(w, IF payload.filename # None
                      THEN [task EXCEPT !.filename = <<payload.filename>>]
                      ELSE task,
                   auto_start)

handle_media_request(w, payload, media_auto, auto_start) ==
    IF ~media_auto THEN w
    ELSE IF \E i \in DOMAIN w.tasks :
               /\ w.tasks[i].manifest_url = payload.manifest_url
               /\ w.tasks[i].status # "completed"
    THEN w
    ELSE LET title == IF payload.title # None THEN payload.title
                      ELSE safe_filename_from_url(payload.manifest_url)
             task == DownloadTask(payload.manifest_url, default_folder,
                                  payload.manifest_url, "media")
         IN  Enter(w, [task EXCEPT !.filename = WithTs(<<title>>)], auto_start)

consume_bridge_requests(w, payloads, media_auto, auto_start) ==
    IF payloads = << >> THEN w
    ELSE IF Head(payloads).kind = "media"
    THEN handle_media_request(w, Head(payloads), media_auto, auto_start)
    ELSE handle_download_request(w, Head(payloads), auto_start)

\* _add_table_row for the tasks appended to the registry: the buttons of
\* a new row capture the index the row is inserted at, table.rowCount()
add_table_row(bs, n) ==
    [j \in 1 .. n |-> IF j <= Len(bs) THEN bs[j] ELSE j]

\* The window is open and the registry has room for one more task.
Room == phase = "running" /\ Len(tasks) < MaxTasks

registryRest == <<ui, life, envVars, taskVars, runs, workers, nruns, overlapped,
                  faults, diskVars, db, shown, schedVars, now, submitted, hlsVars, mediaVars, probeVars>>

\* add_task_dialog and add_task
AddTask(url, auto_start) ==
    /\ Room
    /\ LET w == Enter(World, DownloadTask(url, default_folder, NoUrl, "manual"),
                      auto_start)
       IN  /\ tasks' = w.tasks /\ store' = w.store /\ parts_dirs' = w.dirs
           /\ buttons' = add_table_row(buttons, Len(w.tasks))
    /\ UNCHANGED <<phase, dest_files, legacy, imports, registryRest>>

\* refresh_table: the payloads the bridge has queued since the last tick
\* (one at most) are handled, then the unfinished tasks are saved
RefreshTable(payloads, media_auto, auto_start) ==
    /\ phase = "running"
    /\ payloads # << >> => Room
    /\ LET w == consume_bridge_requests(World, payloads, media_auto, auto_start)
       IN  /\ tasks' = w.tasks /\ parts_dirs' = w.dirs
           /\ store' = SaveUnfinished(w.store, w.tasks)
           /\ buttons' = add_table_row(buttons, Len(w.tasks))
    /\ UNCHANGED <<phase, dest_files, legacy, imports, registryRest>>

\* _run of task i ends
TaskEnds(i) ==
    /\ phase = "running" /\ i \in DOMAIN tasks
    /\ tasks[i].alive /\ tasks[i].status = "downloading"
    /\ tasks' = [tasks EXCEPT ![i].status = "completed", ![i].alive = FALSE]
    /\ dest_files' = dest_files \cup {dest_path(tasks[i])}
    /\ UNCHANGED <<phase, store, parts_dirs, legacy, imports, buttons, registryRest>>

\* start_task and resume_task of row i
StartTask(i) ==
    /\ phase = "running" /\ i \in DOMAIN tasks
    /\ ~tasks[i].alive /\ tasks[i].status \in {"queued", "paused", "error"}
    /\ tasks' = [tasks EXCEPT ![i] = Start(@)]
    /\ UNCHANGED <<phase, store, parts_dirs, dest_files, legacy, imports, buttons, registryRest>>

\* pause_task of row i
PauseTask(i) ==
    /\ phase = "running" /\ i \in DOMAIN tasks
    /\ tasks[i].status = "downloading"
    /\ tasks' = [tasks EXCEPT ![i] = Pause(@)]
    /\ UNCHANGED <<phase, store, parts_dirs, dest_files, legacy, imports, buttons, registryRest>>

Without(ts, i) == SubSeq(ts, 1, i - 1) \o SubSeq(ts, i + 1, Len(ts))

\* remove_task of row i
RemoveTask(i) ==
    /\ phase = "running" /\ i \in DOMAIN tasks
    /\ parts_dirs' = parts_dirs \ {tasks[i].task_temp}
    /\ store' = DeleteTask(store, tasks[i].url, tasks[i].dest_folder)
    /\ tasks' = Without(tasks, i)
    /\ buttons' = Without(buttons, i)
    /\ UNCHANGED <<phase, dest_files, legacy, imports, registryRest>>

\* table.removeRow(i) of clear_completed: the rows of the completed tasks
\* go, with their buttons
RECURSIVE Kept(_, _)
Kept(bs, ts) ==
    IF ts = << >> THEN << >>
    ELSE IF Head(ts).status = "completed" THEN Kept(Tail(bs), Tail(ts))
    ELSE <<Head(bs)>> \o Kept(Tail(bs), Tail(ts))

ClearCompleted ==
    /\ phase = "running"
    /\ \E i \in DOMAIN tasks : tasks[i].status = "completed"
    /\ LET rest == SelectSeq(tasks, LAMBDA t : t.status # "completed")
       IN  tasks' = rest /\ store' = SaveTasks(store, rest)
    /\ buttons' = Kept(buttons, tasks)
    /\ UNCHANGED <<phase, parts_dirs, dest_files, legacy, imports, registryRest>>

\* closeEvent, and the process ends
CloseWindow ==
    /\ phase = "running"
    /\ store' = SaveTasks(store, tasks)
    /\ tasks' = << >> /\ buttons' = << >>
    /\ phase' = "stopped"
    /\ UNCHANGED <<parts_dirs, dest_files, legacy, imports, registryRest>>

\* from_dict of an entry of the legacy file or of a row: a task that is
\* not started, named after its URL
FromDict(data, origin) ==
    [DownloadTask(data.url, data.dest_folder, NoUrl, origin)
         EXCEPT !.status = data.status, !.total_size = data.total_size]

\* migrate_from_json: the entries it imports, by their place in the file
Migrated ==
    IF legacy.exists /\ Len(store) = 0
    THEN {k \in DOMAIN legacy.entries : legacy.entries[k].status # "completed"}
    ELSE {}

\* migrate_from_json: the entries from the k-th on are imported in turn
RECURSIVE migrate_from_json(_, _)
migrate_from_json(w, k) ==
    IF k > Len(legacy.entries) THEN w
    ELSE IF k \notin Migrated THEN migrate_from_json(w, k + 1)
    ELSE LET task == FromDict(legacy.entries[k], "legacy")
         IN  migrate_from_json([w EXCEPT !.store = SaveTask(@, task),
                                         !.dirs = @ \cup {task.task_temp}],
                               k + 1)

\* load_tasks, lines 1077-1088, on a row of the table
Restored(row, dirs) ==
    LET temp_dir == row.filename[1]
        path == <<row.dest_folder, row.filename>>
        file_complete == path \in dest_files /\ row.total_size > 0
                            /\ 1 >= row.total_size
    IN  /\ row.status # "completed"
        /\ ~file_complete
        /\ (temp_dir \in dirs \/ path \notin dest_files)

\* load_tasks: the rows from the k-th down to the first are looked at in turn
RECURSIVE LoadTasks(_, _)
LoadTasks(w, k) ==
    IF k = 0 THEN w
    ELSE IF ~Restored(w.store[k], w.dirs) THEN LoadTasks(w, k - 1)
    ELSE LET task == FromDict(w.store[k], "restored")
         IN  LoadTasks([w EXCEPT !.tasks = Append(@, task),
                                 !.dirs = @ \cup {task.task_temp}],
                       k - 1)

\* IDMWindow.__init__: init_database with migrate_from_json, then load_tasks
OpenWindow ==
    /\ phase = "stopped" /\ Len(imports) < MaxStarts
    /\ LET w1 == migrate_from_json(World, 1)
           w2 == LoadTasks(w1, Len(w1.store))
       IN  /\ tasks' = w2.tasks /\ store' = w2.store /\ parts_dirs' = w2.dirs
           /\ buttons' = add_table_row(buttons, Len(w2.tasks))
    /\ imports' = Append(imports, Migrated)
    /\ phase' = "running"
    /\ UNCHANGED <<dest_files, legacy, registryRest>>

\* The legacy files of the behaviours: none, or one with a completed and
\* a paused entry
LegacyEntry(name, st) ==
    [url |-> [host |-> "a", name |-> name], dest_folder |-> default_folder,
     status |-> st, total_size |-> 0]
LegacyFiles ==
    {[exists |-> FALSE, entries |-> << >>],
     [exists |-> TRUE, entries |-> <<LegacyEntry("", "completed"), LegacyEntry("f", "paused")>>]}

\* The window has not been opened yet: an empty table, no directory, and
\* any of the legacy files.
InitRegistry ==
    /\ phase = "stopped" /\ ui = "idle" /\ life = "none"
    /\ threads = 1 /\ server_size = 1 /\ accept_ranges = TRUE
    /\ status = "queued" /\ error = None /\ total_size = 0 /\ downloaded = 0
    /\ stop_event = FALSE /\ worker_thread = 0
    /\ runs = [r \in RunIds |-> NoRun]
    /\ workers = [r \in RunIds |-> [i \in Parts |-> NoWorker]]
    /\ nruns = 0 /\ overlapped = FALSE /\ faults = 0
    /\ task_temp = FALSE
    /\ part_files = [i \in Parts |-> NoFile]
    /\ dest_file = NoFile
    /\ db = NoRow /\ shown = "none"
    /\ scheduled_start = NoTime /\ scheduled_end = NoTime /\ repeat_interval = 0
    /\ now = 0
    /\ submitted = [flaw |-> "none", n |-> 0, rolled |-> FALSE, started |-> FALSE]
    /\ tasks = << >> /\ store = << >>
    /\ parts_dirs = {} /\ dest_files = {}
    /\ legacy \in LegacyFiles
    /\ imports = << >>
    /\ buttons = << >>
    /\ HlsIdle /\ MediaIdle /\ ProbeIdle

\* The row index that a click on a button of the j-th row of the table
\* hands to its handler (0, which is no row, where the table has no j-th row)
Clicked(j) == IF j \in DOMAIN buttons THEN buttons[j] ELSE 0

NextRegistry ==
    \/ OpenWindow
    \/ \E url \in Urls, auto_start \in BOOLEAN : AddTask(url, auto_start)
    \/ \E payload \in Payloads, media_auto \in BOOLEAN, auto_start \in BOOLEAN :
          RefreshTable(<<payload>>, media_auto, auto_start)
    \/ RefreshTable(<< >>, TRUE, TRUE)
    \/ \E i \in 1 .. MaxTasks : TaskEnds(i)
    \/ \E j \in 1 .. MaxTasks + 1 :
          StartTask(Clicked(j)) \/ PauseTask(Clicked(j)) \/ RemoveTask(Clicked(j))
    \/ ClearCompleted
    \/ CloseWindow

SpecRegistry == InitRegistry /\ [][NextRegistry]_vars

\* ---------------------------------------------------------------------
\* The HLS pipeline: the playlist the task fetches, its parse and the
\* variant chosen for a master playlist.  A playlist is the sequence of
\* its lines after the #EXTM3U line; a line is a #EXT-X-STREAM-INF tag
\* with its BANDWIDTH attribute (or without one), a #EXTINF tag, or a URI.
\* ---------------------------------------------------------------------
NoBandwidth == -1

Line(tag, bandwidth, uri) == [tag |-> tag, bandwidth |-> bandwidth, uri |-> uri]
Lines ==
    {Line("STREAM-INF", b, "") : b \in {NoBandwidth} \cup (0 .. MaxBandwidth)}
    \cup {Line("URI", NoBandwidth, u) : u \in {"a", "b"}}
    \cup {Line("EXTINF", NoBandwidth, "")}
Playlists == UNION {[1 .. n -> Lines] : n \in 0 .. MaxLines}

\* line.startswith("#")
IsTag(line) == line.tag # "URI"

\* int(attrs.get("BANDWIDTH", 0))
Bandwidth(line) == IF line.bandwidth = NoBandwidth THEN 0 ELSE line.bandwidth

\* the inner loop of the STREAM-INF branch: the index of the first line
\* from j on that is no tag, or the length of the playlist plus one
RECURSIVE FindUri(_, _)
FindUri(lines, j) ==
    IF j > Len(lines) THEN j
    ELSE IF ~IsTag(lines[j]) THEN j
    ELSE FindUri(lines, j + 1)

\* the loop of _parse_hls_playlist from line i on
RECURSIVE ParseLines(_, _, _, _)
ParseLines(lines, i, variants, segments) ==
    IF i > Len(lines) THEN [variants |-> variants, segments |-> segments]
    ELSE IF lines[i].tag = "STREAM-INF"
    THEN LET j == FindUri(lines, i + 1)
         IN  ParseLines(lines, j + 1,
                        IF j <= Len(lines)
                        THEN Append(variants, [uri |-> lines[j].uri,
                                               bandwidth |-> Bandwidth(lines[i])])
                        ELSE variants,
                        segments)
    ELSE IF lines[i].tag = "EXTINF"
    THEN IF i + 1 <= Len(lines) /\ ~IsTag(lines[i + 1])
         THEN ParseLines(lines, i + 2, variants, Append(segments, lines[i + 1].uri))
         ELSE ParseLines(lines, i + 1, variants, segments)
    ELSE ParseLines(lines, i + 1, variants, Append(segments, lines[i].uri))

\* A variant of InsertVariant that puts v before the variants of its own
\* bandwidth.
InsertVariantFirst(sorted, v) ==
    LET n == Cardinality({k \in DOMAIN sorted : sorted[k].bandwidth > v.bandwidth})
    IN  SubSeq(sorted, 1, n) \o <<v>> \o SubSeq(sorted, n + 1, Len(sorted))

\* one step of variants.sort(key=bandwidth, reverse=True), which is
\* stable: v goes behind the variants of its own bandwidth or more
InsertVariant(sorted, v) ==
    LET n == Cardinality({k \in DOMAIN sorted : sorted[k].bandwidth >= v.bandwidth})
    IN  SubSeq(sorted, 1, n) \o <<v>> \o SubSeq(sorted, n + 1, Len(sorted))

RECURSIVE SortVariants(_, _)
SortVariants(sorted, variants) ==
    IF variants = << >> THEN sorted
    ELSE SortVariants(InsertVariant(sorted, Head(variants)), Tail(variants))

parse_hls_playlist(lines) ==
    LET p == ParseLines(lines, 1, << >>, << >>)
    IN  IF p.variants # << >>
        THEN [type |-> "master", variants |-> SortVariants(<< >>, p.variants),
              segments |-> << >>]
        ELSE IF p.segments = << >>
        THEN [type |-> "invalid", variants |-> << >>, segments |-> << >>]
        ELSE [type |-> "media", variants |-> << >>, segments |-> p.segments]

hlsRest == <<phase, ui, life, envVars, taskVars, runs, workers, nruns, overlapped,
             faults, diskVars, db, shown, schedVars, now, submitted, registryVars,
             mediaVars, probeVars>>

\* _download_hls_media, lines 522-531: the playlist at the manifest URL is
\* fetched and parsed, and for a master playlist the first variant of the
\* parse is the one that is fetched next
download_hls_media(text) ==
    /\ manifest' = text
    /\ parsed' = parse_hls_playlist(text)
    /\ target' = IF parsed'.type = "master" THEN parsed'.variants[1] ELSE NoVariant
    /\ UNCHANGED hlsRest

InitHls == InitWith(0) /\ RegistryIdle /\ HlsIdle /\ MediaIdle /\ ProbeIdle /\ threads = 1 /\ server_size = 1 /\ accept_ranges

NextHls == \E text \in Playlists : download_hls_media(text)

SpecHls == InitHls /\ [][NextHls]_vars

\* ---------------------------------------------------------------------
\* The range probe, header by header
\* ---------------------------------------------------------------------
\* A header value that is there and is not a number: a Content-Length such
\* as "abc", a Content-Range such as "bytes 0-0/*".
Garbled == -2

\* What the server can answer to one request: a status and the three
\* headers the probe reads.  content_range is the total after the "/",
\* NoHeader when the header is missing or has no "/".
Responses ==
    [status : {200, 206, 405},
     accept_ranges : {"", "bytes"},
     content_length : {NoHeader, Garbled} \cup (0 .. MaxSize),
     content_range : {NoHeader, Garbled} \cup (1 .. MaxSize)]

\* NoResponse stands for the exception a request ends with when the
\* transport fails.
Answers == Responses \cup {NoResponse}

\* _get_file_info: the answer to HEAD when its status is 200 or 206, the
\* answer to the fallback GET otherwise; NoResponse when the GET raises.
get_file_info(head, get) ==
    IF head # NoResponse /\ head.status \in {200, 206} THEN head ELSE get

\* length and length.isdigit()
IsDigit(v) == v \notin {NoHeader, Garbled}

\* The statements of supports_range_and_size inside its try raise:
\* _get_file_info's GET, raise_for_status, or int() of the Content-Range total.
Raises(r) ==
    \/ r = NoResponse
    \/ r.status >= 400
    \/ ~IsDigit(r.content_length) /\ r.content_range = Garbled

\* The response as the lines 119-133 read it.
Digest(r) ==
    [ok |-> ~Raises(r),
     accept |-> r.accept_ranges = "bytes",
     length |-> IF IsDigit(r.content_length) THEN r.content_length ELSE NoHeader,
     range_total |-> IF IsDigit(r.content_range) THEN r.content_range ELSE NoHeader]

\* The body of the try of supports_range_and_size.
ProbeTry(head, get) ==
    LET r == get_file_info(head, get)
        sr == supports_range_and_size(Digest(r))
    IN  [done |-> TRUE, raised |-> Raises(r), supports |-> sr[1], total |-> sr[2]]

\* A variant of RangeProbe without the except clause.
RangeProbeUncaught(head, get) == ProbeTry(head, get)

\* supports_range_and_size as a whole: the except clause turns every
\* exception into (False, None).
RangeProbe(head, get) ==
    LET t == ProbeTry(head, get)
    IN  IF t.raised
        THEN [done |-> TRUE, raised |-> FALSE, supports |-> FALSE, total |-> NoHeader]
        ELSE t

\* _run, lines 234-254: the path the run takes after the probe; an
\* exception of the probe would end the run in the handler of _run.
ProbePath(prior, t) ==
    IF t.raised THEN "error"
    ELSE IF ~t.supports \/ ReconcileTotal(prior, t.total) = 0 THEN "single"
    ELSE "segmented"

probeRest == <<phase, ui, life, envVars, taskVars, runs, workers, nruns, overlapped,
               faults, diskVars, db, shown, schedVars, now, submitted, registryVars,
               hlsVars, mediaVars>>

\* One run reaches its probe.
probe_step ==
    /\ ~probe.result.done
    /\ LET t == RangeProbe(probe.head, probe.get)
       IN  probe' = [probe EXCEPT !.result =
                        [done |-> TRUE, raised |-> t.raised, supports |-> t.supports,
                         total |-> t.total, path |-> ProbePath(probe.prior, t)]]
    /\ UNCHANGED probeRest

\* The server's answers to HEAD and to the fallback GET, and the
\* total_size the task was restored with, are any.
InitProbe ==
    /\ InitWith(0) /\ RegistryIdle /\ HlsIdle /\ MediaIdle
    /\ threads = 1 /\ server_size = 1 /\ accept_ranges
    /\ \E head \in Answers, get \in Answers, prior \in 0 .. MaxSize :
         probe = [head |-> head, get |-> get, prior |-> prior, result |-> NoResult]

NextProbe == probe_step

SpecProbe == InitProbe /\ [][NextProbe]_vars

\* ---------------------------------------------------------------------
\* A media task: _run hands over to _run_media_download, thread r.  The
\* text of a playlist is the sequence of its non-blank lines, the #EXTM3U
\* line included; the server may answer any of MediaTexts to a fetch.
\* ---------------------------------------------------------------------
Header == Line("EXTM3U", NoBandwidth, "")
MediaTexts ==
    { << >>,
      <<Line("EXTINF", NoBandwidth, ""), Line("URI", NoBandwidth, "a")>>,
      <<Header>>,
      <<Header, Line("URI", NoBandwidth, "b")>>,
      <<Header, Line("EXTINF", NoBandwidth, ""), Line("URI", NoBandwidth, "a"),
        Line("URI", NoBandwidth, "b")>>,
      <<Header, Line("STREAM-INF", 1, ""), Line("URI", NoBandwidth, "a")>> }

\* The body the server sends for a segment URL.
Body(uri) == IF uri = "a" THEN <<1, 2>> ELSE <<3>>

\* The bodies of the first n segments, one after the other.
RECURSIVE Concat(_, _)
Concat(segments, n) ==
    IF n = 0 THEN << >> ELSE Concat(segments, n - 1) \o Body(segments[n])

\* not lines or not lines[0].startswith("#EXTM3U")
HasHeader(text) == text # << >> /\ text[1].tag = "EXTM3U"

\* _parse_hls_playlist on the whole text; the #EXTM3U line is a line with
\* "#" that the loop passes over.
ParseText(text) ==
    IF HasHeader(text) THEN parse_hls_playlist(Tail(text))
    ELSE [type |-> "invalid", variants |-> << >>, segments |-> << >>]

\* A variant of ParseError that does not look for #EXTM3U on the first line.
ParseErrorLenient(text) ==
    IF text = << >> THEN "Invalid HLS playlist"
    ELSE IF parse_hls_playlist(Tail(text)).type = "invalid" THEN "Playlist has no segments"
    ELSE None

\* The message of the ValueError _parse_hls_playlist raises, None when it
\* returns.
ParseError(text) ==
    IF ~HasHeader(text) THEN "Invalid HLS playlist"
    ELSE IF ParseText(text).type = "invalid" THEN "Playlist has no segments"
    ELSE None

\* A variant of SegmentsOf that takes the variants of a master playlist
\* for its segments.
SegmentsOrVariants(p) ==
    IF p.type = "master" THEN <<p.variants[1].uri>> ELSE p.segments

\* parsed.get("segments", []): a master playlist has no such key
SegmentsOf(p) == IF p.type = "media" THEN p.segments ELSE << >>

mediaRest == <<phase, ui, life, envVars, worker_thread, workers, nruns, overlapped,
               task_temp, part_files, db, shown, schedVars, now, submitted,
               registryVars, hlsVars, probeVars>>

MediaEnds(r) == [media EXCEPT ![r].pc = "done", ![r].fh = "none"]

\* The handler of _run_media_download, lines 432-434; the with block, if
\* entered, has closed the handle.
MediaFails(r, message) ==
    /\ status' = "error"
    /\ error' = message
    /\ runs' = RunEnds(r)
    /\ media' = MediaEnds(r)

\* lines 419-425
MediaResets ==
    /\ stop_event' = FALSE
    /\ downloaded' = 0
    /\ total_size' = 0

\* lines 533-545: the segment list is there; err is what self.error holds.
\* open(temp_path, "wb")
\* creates the file or empties the one that is there, which the handles of
\* other runs on it go on writing to.
MediaOpens(r, segments, err) ==
    /\ media_state' = [segments_total |-> Len(segments), segments_done |-> 0]
    /\ IF segments = << >>
       THEN /\ MediaFails(r, "No media segments found")
            /\ UNCHANGED temp_file
       ELSE /\ status' = "downloading"
            /\ error' = err
            /\ temp_file' = [exists |-> TRUE, data |-> << >>]
            /\ runs' = [runs EXCEPT ![r].pc = "media"]
            /\ media' = [media EXCEPT ![r] =
                   [pc |-> "loop", segments |-> segments, k |-> 1, at |-> 0,
                    fh |-> "temp", pos |-> 0, redirects |-> media[r].redirects]]

\* _run, lines 229-231, _run_media_download, lines 419-425, and
\* _download_hls_media, lines 523-545, for a manifest that is no master
\* playlist: the manifest is fetched and parsed.
media_manifest(r, text) ==
    /\ phase # "stopped" /\ runs[r].pc = "probe" /\ media[r].pc = "none"
    /\ MediaResets
    /\ IF ParseError(text) # None
       THEN /\ MediaFails(r, ParseError(text))
            /\ UNCHANGED <<temp_file, media_state>>
       ELSE IF ParseText(text).type = "master"
       THEN /\ status' = "starting"
            /\ error' = None
            /\ runs' = [runs EXCEPT ![r].pc = "media"]
            /\ media' = [media EXCEPT ![r].pc = "variant", ![r].redirects = 1]
            /\ UNCHANGED <<temp_file, media_state>>
       ELSE MediaOpens(r, SegmentsOf(ParseText(text)), None)
    /\ UNCHANGED <<mediaRest, dest_file, fetched, faults>>

\* lines 529-545: the first variant of the master playlist is fetched and
\* parsed
media_variant(r, text) ==
    /\ phase # "stopped" /\ media[r].pc = "variant"
    /\ IF ParseError(text) # None
       THEN /\ MediaFails(r, ParseError(text))
            /\ UNCHANGED <<temp_file, media_state>>
       ELSE MediaOpens(r, SegmentsOf(ParseText(text)), error)
    /\ UNCHANGED <<mediaRest, dest_file, fetched, faults, stop_event, downloaded,
                   total_size>>

\* os.replace(temp_path, dest_path): the file that was the destination
\* has no name any more, and the handles on the temp file are handles on
\* the destination file now.
Renamed(ms) ==
    [q \in RunIds |->
        IF ms[q].fh = "dest" THEN [ms[q] EXCEPT !.fh = "orphan"]
        ELSE IF ms[q].fh = "temp" THEN [ms[q] EXCEPT !.fh = "dest"]
        ELSE ms[q]]

\* lines 547-553 and 569-572: the head of the loop over the segments.  The
\* loop is over: the file is closed and renamed.  Or the flag is set: the
\* run ends paused.  Or the next segment is requested.
media_next(r) ==
    /\ phase # "stopped" /\ media[r].pc = "loop"
    /\ IF media[r].k > Len(media[r].segments)
       THEN /\ IF temp_file.exists
               THEN /\ dest_file' = temp_file
                    /\ temp_file' = NoFile
                    /\ status' = "completed"
                    /\ runs' = RunEnds(r)
                    /\ media' = Renamed(MediaEnds(r))
                    /\ UNCHANGED error
               ELSE /\ MediaFails(r, "FileNotFoundError")
                    /\ UNCHANGED <<dest_file, temp_file>>
            /\ UNCHANGED fetched
       ELSE IF stop_event
       THEN /\ status' = "paused"
            /\ runs' = RunEnds(r)
            /\ media' = MediaEnds(r)
            /\ UNCHANGED <<error, dest_file, temp_file, fetched>>
       ELSE /\ fetched' = Append(fetched, <<r, media[r].k>>)
            /\ media' = [media EXCEPT ![r].pc = "body", ![r].at = 0]
            /\ UNCHANGED <<status, error, runs, dest_file, temp_file>>
    /\ UNCHANGED <<mediaRest, media_state, faults, stop_event, downloaded, total_size>>

\* _download_binary, lines 450-457, one chunk, and lines 554-558 after the
\* last one
media_chunk(r) ==
    /\ phase # "stopped" /\ media[r].pc = "body"
    /\ IF stop_event
       THEN /\ status' = "paused"
            /\ runs' = RunEnds(r)
            /\ media' = MediaEnds(r)
            /\ UNCHANGED <<downloaded, dest_file, temp_file, media_state>>
       ELSE LET m == media[r]
                body == Body(m.segments[m.k])
                chunk == SubSeq(body, m.at + 1, Min(m.at + CHUNK_SIZE, Len(body)))
                last == m.at + Len(chunk) = Len(body)
            IN  /\ temp_file' = IF m.fh = "temp"
                                THEN [temp_file EXCEPT !.data = WriteAt(@, m.pos, chunk)]
                                ELSE temp_file
                /\ dest_file' = IF m.fh = "dest"
                                THEN [dest_file EXCEPT !.data = WriteAt(@, m.pos, chunk)]
                                ELSE dest_file
                /\ downloaded' = downloaded + Len(chunk)
                /\ media' = [media EXCEPT ![r].pos = m.pos + Len(chunk),
                                          ![r].at = IF last THEN 0 ELSE m.at + Len(chunk),
                                          ![r].k = IF last THEN m.k + 1 ELSE m.k,
                                          ![r].pc = IF last THEN "loop" ELSE "body"]
                /\ media_state' = IF last THEN [media_state EXCEPT !.segments_done = m.k]
                                  ELSE media_state
                /\ UNCHANGED <<status, runs>>
    /\ UNCHANGED <<mediaRest, error, fetched, faults, stop_event, total_size>>

\* A fetch raises: the variant playlist or a segment cannot be had, or the
\* connection drops in the middle of a body.
media_fail(r) ==
    /\ phase # "stopped" /\ faults < MaxFaults
    /\ \/ media[r].pc \in {"variant", "body"}
       \/ media[r].pc = "loop" /\ ~stop_event /\ media[r].k <= Len(media[r].segments)
    /\ faults' = faults + 1
    /\ MediaFails(r, "RequestException")
    /\ UNCHANGED <<mediaRest, dest_file, temp_file, media_state, fetched, stop_event,
                   downloaded, total_size>>

MediaStep ==
    \E r \in RunIds :
        \/ run_begin(r) \/ run_clear(r) \/ run_recount(r)
        \/ \E text \in MediaTexts : media_manifest(r, text) \/ media_variant(r, text)
        \/ media_next(r) \/ media_chunk(r) \/ media_fail(r)

MediaUserStep ==
    \/ \E a \in BOOLEAN : add_task(a)
    \/ start_task \/ resume_task \/ pause_task \/ pause_return

InitMedia ==
    /\ InitWith(0) /\ RegistryIdle /\ HlsIdle /\ MediaIdle /\ ProbeIdle
    /\ threads = 1 /\ server_size = 1 /\ accept_ranges

NextMedia == MediaStep \/ MediaUserStep

SpecMedia == InitMedia /\ [][NextMedia]_vars

\* ---------------------------------------------------------------------
\* One task that is started once, on a server with range support and a
\* network that never fails, with no pause and no schedule; its threads
\* get their turn.
\* ---------------------------------------------------------------------
InitRun ==
    /\ InitWith(MaxFaults) /\ RegistryIdle /\ HlsIdle /\ MediaIdle /\ ProbeIdle
    /\ accept_ranges

\* The steps of _run on the segmented path, the one a server with range
\* support and a size sends every run to.
RunStepSegmented ==
    \E r \in RunIds :
        \/ run_begin(r) \/ run_clear(r) \/ run_recount(r) \/ run_probe(r)
        \/ run_plan(r) \/ run_monitor(r) \/ run_merge(r) \/ run_finish(r)

NextRun ==
    \/ \E a \in BOOLEAN : add_task(a)
    \/ start_task
    \/ RunStepSegmented \/ WorkerStepStore

SpecRun ==
    InitRun /\ [][NextRun]_vars /\ WF_vars(RunStepSegmented) /\ WF_vars(WorkerStepStore)

\* ---------------------------------------------------------------------
\* The task under the user's Start, Pause and Resume, the schedule dialog
\* without a repeat, the timer's tick and the clock, with a resource of one
\* byte on a server without range support and a network that never fails.
\* ---------------------------------------------------------------------
\* The dialogs of a schedule without repeat that starts now or a second
\* from now and has no end or a late one.
OneShots ==
    {d \in Dialogs : d.combo = 0 /\ d.start \in {0, 1} /\ d.end \in {NoTime, MaxTime}}

InitPause ==
    /\ InitWith(MaxFaults) /\ RegistryIdle /\ HlsIdle /\ MediaIdle /\ ProbeIdle
    /\ threads = 1 /\ server_size = 1 /\ ~accept_ranges

\* The steps of _run on the single-stream path.
RunStepSingle ==
    \E r \in RunIds :
        \/ run_begin(r) \/ run_clear(r) \/ run_recount(r) \/ run_probe(r)
        \/ run_single(r) \/ run_single_end(r)

NextPause ==
    \/ RunStepSingle
    \/ \E a \in BOOLEAN : add_task(a)
    \/ start_task \/ resume_task \/ pause_task \/ pause_return
    \/ \E d \in OneShots : schedule_task(d)
    \/ schedule_task_join
    \/ refresh_table \/ refresh_table_join
    \/ clock

SpecPause == InitPause /\ [][NextPause]_vars

\* ---------------------------------------------------------------------
\* The claims
\* ---------------------------------------------------------------------
WholeResource == Resource(0, server_size - 1)
NoPartFiles == \A i \in Parts : ~part_files[i].exists

\* Run r sets status to completed in this step, at the end of the segmented path.
Completes(r) == runs[r].pc = "finish" /\ runs'[r].pc = "done"

\* C1: in every state, total_size > 0 implies downloaded <= total_size
\* (stated for the behaviours in which no two runs of the task overlapped
\* and the network never failed).
C1_DownloadedWithinTotal ==
    ~overlapped /\ faults = 0 /\ total_size > 0 => downloaded <= total_size

\* C2: when a run of the segmented path sets status to completed, the
\* destination file has total_size bytes and no part file remains.
C2_CompletedFileWhole ==
    [][\A r \in RunIds : Completes(r) /\ ~overlapped =>
          /\ status' = "completed"
          /\ dest_file'.exists /\ Len(dest_file'.data) = total_size'
          /\ NoPartFiles']_vars

\* C3: with a server that never misbehaves, when a run of the segmented
\* path sets status to completed, after any pause()/start() cycles, the
\* destination file is the resource, byte for byte.
C3_MergedFileIsResource ==
    [][\A r \in RunIds : Completes(r) /\ faults = 0 /\ ~overlapped =>
          dest_file'.exists /\ dest_file'.data = WholeResource]_vars

\* C4: at no time are two runs of the task active (a _run thread, or
\* segment workers a run has spawned).
C4_OneRunAtATime == Cardinality({r \in RunIds : RunActive(r)}) <= 1

\* C5: a segmented run whose workers were interrupted by the cancellation
\* flag before every part was complete goes on monitoring until it ends
\* with status paused; it merges nothing (so it removes no part file) and
\* none of its workers truncates a part file that holds bytes
\* (stated for the behaviours without overlapping runs and network faults).
C5_CancelledRunPauses ==
    [][\A r \in RunIds : runs[r].cancelled /\ ~overlapped' /\ faults' = 0 =>
          /\ \/ runs'[r].pc = "monitor"
             \/ runs'[r].pc = "done" /\ status' = "paused"
          /\ \A i \in Parts :
                workers[r][i].pc = "ready" /\ workers'[r][i].pc = "stream"
                => FileSize(part_files[i]) = 0]_vars

\* The _run thread r ends in this step.
Ends(r) == RunAlive(r) /\ runs'[r].pc = "done"

\* C6: a run one of whose segment workers failed never merges and never
\* sets status completed; unless it is cancelled, it ends with status
\* error and an error message.
C6_FailedWorkerAbortsRun ==
    [][\A r \in RunIds : runs[r].failed /\ ~overlapped' =>
          /\ runs'[r].pc # "finish"
          /\ Ends(r) /\ ~stop_event => status' = "error" /\ error' # None]_vars

\* The size a complete part_i.tmp has: end - start + 1 of its range.
ExpectedSize(i) ==
    Min((i + 1) * Ceil(total_size, threads), total_size) - i * Ceil(total_size, threads)

\* Run r starts its segment workers (or finds none to start) in this step.
Plans(r) == runs[r].pc = "plan" /\ runs'[r].pc # "plan"

\* The worker of run r for part i gets its response and opens its part file.
Fetches(r, i) == workers[r][i].pc = "ready" /\ workers'[r][i].pc = "stream"

\* C7: a run starts no worker (so sends no range request) for a part whose
\* file has exactly the expected size, and leaves the file as it is; for a
\* part whose file is missing or has another size it starts a worker for
\* the whole range of the part, whose request asks for that whole range
\* and which writes the file anew from offset 0.
C7_OnlyIncompletePartsFetched ==
    [][\A r \in RunIds, i \in Parts :
          /\ Plans(r) /\ i < threads =>
                IF part_files[i].exists /\ Len(part_files[i].data) = ExpectedSize(i)
                THEN workers'[r][i].pc = "none" /\ part_files'[i] = part_files[i]
                ELSE /\ workers'[r][i].pc = "ready"
                     /\ workers'[r][i].start = i * Ceil(total_size, threads)
                     /\ workers'[r][i].end - workers'[r][i].start + 1 = ExpectedSize(i)
          /\ Fetches(r, i) =>
                /\ FileSize(part_files[i]) # workers[r][i].end - workers[r][i].start + 1
                /\ workers'[r][i].lo = workers[r][i].start
                /\ workers'[r][i].hi = workers[r][i].end
                /\ workers'[r][i].pos = 0
                /\ part_files'[i] = [exists |-> TRUE, data |-> << >>]]_vars

\* C7 witness: a second run that skipped the complete part 1 and whose
\* worker has just truncated the partial part 0 (its byte is still counted
\* in downloaded) to fetch it again.
C7_Witness ==
    /\ nruns = 2 /\ ~overlapped /\ faults = 0 /\ threads = 2
    /\ runs[2].pc = "monitor"
    /\ workers[2][1].pc = "none"
    /\ part_files[1].exists /\ Len(part_files[1].data) = ExpectedSize(1)
    /\ workers[2][0].pc = "stream" /\ workers[2][0].pos = 0
    /\ workers[2][0].lo = 0 /\ workers[2][0].hi = 1
    /\ part_files[0] = [exists |-> TRUE, data |-> << >>]
    /\ downloaded = 2

\* The store is reopened in this step and the task restored from its row.
Reloads == phase = "stopped" /\ phase' = "running" /\ life' = "live"

\* C8: the task obtained by reloading the store has downloaded equal to
\* the sum of the sizes of the part files in its parts directory.
C8_ReloadRecountsFromDisk ==
    [][Reloads => /\ task_temp'
                  /\ downloaded' = SumSizes(part_files', MaxThreads)]_vars

\* C8 witness: a task restored after the process died in the middle of a
\* segmented transfer; its row says downloading and counts other bytes
\* than the part files hold.
C8_Witness ==
    /\ phase = "running" /\ life = "live" /\ nruns >= 1
    /\ \A r \in RunIds : runs[r].pc = "none"
    /\ db.exists /\ db.status = "downloading" /\ status = "downloading"
    /\ total_size > 0
    /\ \E i \in Parts : part_files[i].exists
    /\ downloaded > 0
    /\ downloaded = SumSizes(part_files, MaxThreads)
    /\ db.downloaded # downloaded

\* The shutdown handler runs in this step.
ShutsDown == phase = "running" /\ phase' = "closing"

\* C9: when the shutdown handler has run, a task that was in flight
\* (status starting or downloading) has its cancellation flag set, and its
\* row is not persisted with status downloading or starting.
C9_ShutdownPausesTasks ==
    [][ShutsDown /\ life = "live" /\ status \in {"starting", "downloading"} =>
          /\ stop_event'
          /\ db'.exists => db'.status \notin {"starting", "downloading"}]_vars

\* C10: once remove has returned, no _run thread or segment worker of the
\* task is left, its parts directory and part files do not exist, and the
\* store has no row for it.
C10_RemovedTaskIsGone ==
    life = "removed" =>
        /\ \A r \in RunIds : ~RunActive(r)
        /\ ~task_temp /\ NoPartFiles
        /\ ~db.exists

\* The schedule dialog is submitted in this step.
Submits == submitted'.n # submitted.n

C14_ScheduleWellFormed ==
    life = "live" =>
        /\ repeat_interval > 0 => scheduled_start # NoTime
        /\ scheduled_start # NoTime /\ scheduled_end # NoTime
              => scheduled_end > scheduled_start

\* C14 witness: a repeating window that the ticks have rolled beyond the
\* times the dialog offers.
C14_Witness ==
    /\ life = "live" /\ repeat_interval > 0
    /\ scheduled_start > MaxTime /\ scheduled_end > scheduled_start
    /\ submitted.rolled

\* The timer ticks in this step for a task whose repeating window, with
\* both boundaries set, has elapsed.
TicksElapsed ==
    /\ life = "live" /\ ui = "idle" /\ ~Submits
    /\ scheduled_start # NoTime /\ scheduled_end # NoTime /\ repeat_interval > 0
    /\ scheduled_end <= now
    /\ Sched' # Sched

\* C15: a tick at now >= scheduled_end, for a task with both boundaries
\* and repeat_interval > 0, rolls start and end forward by the same whole
\* multiple of repeat_interval, the smallest that makes end > now; and a
\* tick that ends (at once, or when the join of its pause() returns) with
\* the start after now ends with status scheduled.
C15_TickRollsWindow ==
    [][/\ TicksElapsed =>
            /\ repeat_interval' = repeat_interval
            /\ scheduled_end' > now
            /\ scheduled_end' - repeat_interval <= now
            /\ (scheduled_end' - scheduled_end) % repeat_interval = 0
            /\ scheduled_start' - scheduled_start = scheduled_end' - scheduled_end
            /\ ui' = "idle" /\ scheduled_start' > now => status' = "scheduled"
       /\ ui = "tick_join" /\ ui' = "idle" /\ repeat_interval > 0
             /\ scheduled_end # NoTime /\ scheduled_start > now
            => status' = "scheduled" /\ Sched' = Sched]_vars

\* C15 witness: the window of a task that was downloading has been rolled
\* beyond the times the dialog offers; the task was paused and is scheduled.
C15_Witness ==
    /\ life = "live" /\ ui = "idle" /\ repeat_interval = 2
    /\ scheduled_start = MaxTime + 1 /\ scheduled_end = MaxTime + 2
    /\ now = MaxTime /\ submitted.rolled
    /\ status = "scheduled" /\ worker_thread # 0 /\ stop_event

\* A tick of the timer returns in this step and shows a new status in the
\* task's row of the table.
TickShows ==
    /\ phase = "running" /\ phase' = "running"
    /\ life = "live" /\ life' = "live"
    /\ ui' = "idle" /\ ~Submits
    /\ shown' # shown

\* C16: when a tick returns that has seen the task's status change, the
\* task's row holds the task's status, error, downloaded, total_size,
\* scheduled_start, scheduled_end and repeat_interval.
C16_TickPersistsChanges ==
    [][TickShows =>
          db' = RowOf(status', error', total_size', downloaded', Sched')]_vars

\* The store is opened in this step, with a row of an unfinished task in it.
LoadsRow == phase = "stopped" /\ phase' = "running" /\ db.exists /\ db.status # "completed"

C11_OneRowPerKey ==
    \A i, j \in DOMAIN store : KeyOf(store[i]) = KeyOf(store[j]) => i = j

\* C11 witness: two tasks of one key have been saved, the second after the
\* first, and the table holds the one row of that key, updated by a tick.
C11_Witness ==
    /\ phase = "running" /\ Len(tasks) = 2
    /\ KeyOf(tasks[1]) = KeyOf(tasks[2])
    /\ Len(store) = 1 /\ KeyOf(store[1]) = KeyOf(tasks[1])
    /\ store[1].status = "downloading" /\ store[1].total_size = 1

\* C12: no two tasks of the registry share a parts directory or a key of
\* the table.
C12_TasksShareNothing ==
    \A i, j \in DOMAIN tasks :
        i # j => /\ tasks[i].task_temp # tasks[j].task_temp
                 /\ KeyOf(tasks[i]) # KeyOf(tasks[j])

\* C18: the legacy file is imported at one startup at most, and no
\* completed entry of it is ever inserted.
C18_LegacyImportedOnce ==
    /\ Cardinality({k \in DOMAIN imports : imports[k] # {}}) <= 1
    /\ \A k \in DOMAIN imports : \A e \in imports[k] :
          legacy.entries[e].status # "completed"

\* The task was created from a payload of the bridge.
Requested(t) == t.origin \in {"download", "media"}

\* C19: handling payloads never leaves two tasks that are not completed
\* and were created from payloads with the same URL or the same
\* manifest_url.
C19_NoDuplicateRequests ==
    \A i, j \in DOMAIN tasks :
        /\ i # j
        /\ Requested(tasks[i]) /\ Requested(tasks[j])
        /\ tasks[i].status # "completed" /\ tasks[j].status # "completed"
        => /\ tasks[i].url # tasks[j].url
           /\ tasks[i].manifest_url # NoUrl
                 => tasks[i].manifest_url # tasks[j].manifest_url

\* The STREAM-INF tags of a playlist that a URI line follows, by index
StreamInfs(lines) ==
    {i \in DOMAIN lines : lines[i].tag = "STREAM-INF" /\ FindUri(lines, i + 1) <= Len(lines)}

\* Every STREAM-INF tag of the playlist has its URI line, before the next
\* STREAM-INF tag.
EveryInfHasUri(lines) ==
    \A i \in DOMAIN lines :
        lines[i].tag = "STREAM-INF" =>
            /\ FindUri(lines, i + 1) <= Len(lines)
            /\ \A k \in (i + 1) .. (FindUri(lines, i + 1) - 1) : lines[k].tag # "STREAM-INF"

TimerTick == refresh_table \/ refresh_table_join

\* A _run thread of the task is at work.
TaskRunning == worker_thread # 0 /\ RunActive(worker_thread)

\* C27: a tick that returns at a time now < scheduled_start leaves the
\* status scheduled, and a run of the task that was at work with status
\* downloading or starting has been signalled to stop.
C27_TickBeforeStartStopsRun ==
    [][/\ TimerTick /\ ui' = "idle"
       /\ scheduled_start # NoTime /\ now < scheduled_start
       => /\ status' = "scheduled"
          /\ status \in {"downloading", "starting"} /\ TaskRunning => stop_event']_vars

\* The timer ticks at a time inside the window of the task.
TicksWithin ==
    /\ refresh_table
    /\ Window(scheduled_start, scheduled_end, now) = "within"

\* A tick has started the task and its _run thread has not begun.
StartedByTick ==
    /\ submitted.started /\ worker_thread # 0
    /\ runs[worker_thread].pc = "begin"

C29_TickAfterEndClears ==
    [][/\ TimerTick /\ ui' = "idle"
       /\ repeat_interval = 0 /\ scheduled_end # NoTime /\ now >= scheduled_end
       => /\ Sched' = NoSched
          /\ status' = IF status = "completed" THEN "completed" ELSE "paused"
          /\ status \in {"downloading", "starting"} /\ TaskRunning => stop_event']_vars

\* C30: with a start, no end and repeat_interval > 0, the run that a tick
\* has started is not signalled to stop and its status is not changed by
\* a tick before the next scheduled_start.
C30_StartedRunKeepsRunning ==
    [][/\ TimerTick /\ submitted.started
       /\ repeat_interval > 0 /\ scheduled_end = NoTime
       /\ scheduled_start # NoTime /\ now < scheduled_start
       /\ status \in {"starting", "downloading"} /\ TaskRunning
       => /\ status' = status
          /\ stop_event' = stop_event]_vars

\* The probe has run and _get_file_info handed it this response.
Probed == probe.result.done
Returned == get_file_info(probe.head, probe.get)
ReturnsFalseNone ==
    /\ ~probe.result.supports /\ probe.result.total = NoHeader
    /\ probe.result.path = "single"

\* C25 as stated: the probe never raises; when HEAD and the fallback GET
\* both fail in the transport, or the status is an HTTP error, or a size
\* header (Content-Length or the total of Content-Range) cannot be parsed,
\* it returns (false, None) and the run goes on on the single-stream path.
C25_ProbeFailuresReturnFalseNone ==
    Probed =>
        /\ ~probe.result.raised
        /\ \/ probe.head = NoResponse /\ probe.get = NoResponse
           \/ Returned # NoResponse /\ Returned.status >= 400
           \/ Returned # NoResponse /\ Garbled \in {Returned.content_length,
                                                  Returned.content_range}
           => ReturnsFalseNone

\* C25, amended: the probe never raises; when HEAD and the fallback GET
\* both fail in the transport, or the status is an HTTP error, or the total
\* of Content-Range is not an integer while Content-Length is missing or not
\* numeric, it returns (false, None) and the run goes on on the
\* single-stream path.
C25_ProbeNeverRaises ==
    Probed =>
        /\ ~probe.result.raised
        /\ probe.result.path # "error"
        /\ \/ probe.head = NoResponse /\ probe.get = NoResponse
           \/ Returned # NoResponse /\ Returned.status >= 400
           \/ /\ Returned # NoResponse
              /\ ~IsDigit(Returned.content_length)
              /\ Returned.content_range = Garbled
           => ReturnsFalseNone

\* A task restored with a total_size probes a server whose HEAD fails and
\* whose GET answers 206 with two size headers that cannot be parsed.
C25_Witness ==
    /\ Probed /\ probe.prior > 0
    /\ probe.head = NoResponse
    /\ probe.get.status = 206 /\ probe.get.accept_ranges = "bytes"
    /\ probe.get.content_length = Garbled /\ probe.get.content_range = Garbled
    /\ ReturnsFalseNone

\* C26: when HEAD fails or its status is neither 200 nor 206, and the
\* fallback GET answers 206 with Content-Range: bytes 0-0/N, N >= 1, the
\* probe returns (true, N) whatever the other headers of the 206 are.
C26_FallbackReportsTotal ==
    /\ Probed
    /\ probe.head = NoResponse \/ probe.head.status \notin {200, 206}
    /\ probe.get.status = 206 /\ probe.get.content_range >= 1
    => probe.result.supports /\ probe.result.total = probe.get.content_range

\* ---- the media run ----
MediaRunning(r) == media[r].pc \in {"variant", "loop", "body"}

\* C21: a media run whose manifest does not begin with #EXTM3U ends with
\* status error and the message 'Invalid HLS playlist'; it fetches no
\* segment, and the temp file and the destination file are neither created
\* nor modified.
C21_InvalidManifestRejected ==
    [][\A r \in RunIds, text \in MediaTexts :
          media_manifest(r, text) /\ ~HasHeader(text) =>
              /\ status' = "error" /\ error' = "Invalid HLS playlist"
              /\ runs'[r].pc = "done" /\ ~MediaRunning(r)'
              /\ fetched' = fetched
              /\ temp_file' = temp_file /\ dest_file' = dest_file]_vars

\* A second run of a task whose first run completed finds an invalid manifest.
C21_Witness ==
    /\ nruns = 2 /\ ~overlapped /\ runs[1].pc = "done" /\ runs[2].pc = "done"
    /\ media[2].pc = "done" /\ media[2].redirects = 0 /\ media[2].segments = << >>
    /\ status = "error" /\ error = "Invalid HLS playlist"
    /\ dest_file.exists /\ dest_file.data = <<1, 2, 3>> /\ ~temp_file.exists
    /\ fetched = <<<<1, 1>>, <<1, 2>>>>

\* The file the handle of run r writes to.
HandleData(r) ==
    IF media[r].fh = "temp" THEN temp_file.data
    ELSE IF media[r].fh = "dest" THEN dest_file.data
    ELSE << >>

\* Run r issues the request for a segment in this step.
Requests(r) == media_next(r) /\ media'[r].pc = "body"
\* Run r renames the temp file and sets status to completed in this step.
Finishes(r) == media_next(r) /\ media[r].k > Len(media[r].segments) /\ temp_file.exists

\* C22: in a media run the segments are fetched one at a time in the order
\* of the playlist: when the request for a segment is issued no other
\* request of the task is under way and the file holds the bodies of the
\* segments before it, whole and in order; when the run completes, the
\* destination file is the concatenation of the bodies of all segments.
C22_SegmentsInOrder ==
    [][\A r \in RunIds :
          /\ Requests(r) =>
                /\ \A q \in RunIds : media[q].pc # "body"
                /\ fetched'[Len(fetched')] = <<r, media[r].k>>
                /\ media[r].k > 1 => fetched[Len(fetched)] = <<r, media[r].k - 1>>
                /\ HandleData(r) = Concat(media[r].segments, media[r].k - 1)
          /\ Finishes(r) =>
                /\ status' = "completed"
                /\ dest_file'.exists
                /\ dest_file'.data = Concat(media[r].segments, Len(media[r].segments))]_vars

\* The same, for the behaviours in which no two runs of the task overlap.
C22_SegmentsInOrderAlone ==
    [][\A r \in RunIds : ~overlapped =>
          /\ Requests(r) =>
                /\ \A q \in RunIds : media[q].pc # "body"
                /\ fetched'[Len(fetched')] = <<r, media[r].k>>
                /\ media[r].k > 1 => fetched[Len(fetched)] = <<r, media[r].k - 1>>
                /\ HandleData(r) = Concat(media[r].segments, media[r].k - 1)
          /\ Finishes(r) =>
                /\ status' = "completed"
                /\ dest_file'.exists
                /\ dest_file'.data = Concat(media[r].segments, Len(media[r].segments))]_vars

\* Run r ends in this step.
RunEndsNow(r) == runs[r].pc # "done" /\ runs'[r].pc = "done"
\* Run r enters the loop over its segments in this step.
Opens(r) == media[r].pc \in {"none", "variant"} /\ media'[r].pc = "loop"

\* C23: the destination file of a media task changes only in the final
\* rename of a run that has appended every segment of its playlist; a run
\* that ends after pause() has set the flag, or that fails, leaves the
\* destination file as it was and does not set status to completed; a run
\* begins at the first segment with segments_done = 0 and an empty temp file
\* (stated for the behaviours in which no two runs of the task overlap).
C23_DestOnlyByFinalRename ==
    [][~overlapped =>
          /\ dest_file' # dest_file =>
                \E r \in RunIds :
                    /\ Finishes(r)
                    /\ temp_file.data = Concat(media[r].segments, Len(media[r].segments))
          /\ \A r \in RunIds :
                /\ RunEndsNow(r) /\ (stop_event \/ status' = "error") =>
                      dest_file' = dest_file /\ status' # "completed"
                /\ Opens(r) =>
                      /\ media'[r].k = 1 /\ media_state'.segments_done = 0
                      /\ temp_file' = [exists |-> TRUE, data |-> << >>]]_vars

\* C24 as stated: parsing a master playlist and then its chosen variant
\* always yields a media playlist: the run follows exactly one redirection
\* and then has a segment list that is not empty to download.
C24_VariantIsMedia ==
    [][\A r \in RunIds, text \in MediaTexts :
          media_variant(r, text) =>
              /\ media'[r].redirects = 1
              /\ media'[r].pc = "loop" /\ media'[r].segments # << >>]_vars

\* C24, amended: the run follows one redirection at most, from the master
\* playlist to its first variant.  When the text at the variant's URL
\* parses as a media playlist, the run has its segment list, which is not
\* empty, to download; otherwise (the text has no #EXTM3U line, or no
\* segment, or is a master playlist again) the run ends with status error,
\* fetches no segment and leaves the temp file and the destination file alone.
C24_OneRedirectionThenMediaOrError ==
    [][\A r \in RunIds, text \in MediaTexts :
          media_variant(r, text) =>
              /\ media[r].redirects = 1 /\ media'[r].redirects = 1
              /\ IF HasHeader(text) /\ ParseText(text).type = "media"
                 THEN /\ media'[r].pc = "loop"
                      /\ media'[r].segments = ParseText(text).segments
                      /\ media'[r].segments # << >>
                      /\ media_state'.segments_total = Len(media'[r].segments)
                      /\ status' = "downloading"
                 ELSE /\ status' = "error"
                      /\ error' \in {"Invalid HLS playlist", "Playlist has no segments",
                                     "No media segments found"}
                      /\ runs'[r].pc = "done" /\ media'[r].pc = "done"
                      /\ fetched' = fetched
                      /\ temp_file' = temp_file /\ dest_file' = dest_file]_vars

\* A run that was sent from a master playlist to its variant downloads the
\* two segments of the variant.
C24_Witness ==
    \E r \in RunIds :
        /\ media[r].redirects = 1 /\ media[r].pc = "body"
        /\ media[r].segments = <<"a", "b">> /\ media[r].k = 2
        /\ status = "downloading" /\ ~overlapped
        /\ temp_file.data = <<1, 2>>

\* ---- the ranges of the segmented path ----
Planning == \E r \in RunIds : runs[r].pc = "plan"
InPart(b, i) == PartStart(i) <= b /\ b <= PartEnd(i)

\* C36: for every total_size >= 1 and threads >= 1, the ranges the
\* segmented path computes are each non-empty and within the resource
\* (start_i <= end_i <= total_size - 1), pairwise disjoint, and together
\* they cover the bytes 0 .. total_size - 1.
C36_RangesPartition ==
    Planning /\ total_size >= 1 =>
        /\ \A i \in 0 .. (threads - 1) :
              PartStart(i) <= PartEnd(i) /\ PartEnd(i) <= total_size - 1
        /\ \A b \in 0 .. (total_size - 1) :
              Cardinality({i \in 0 .. (threads - 1) : InPart(b, i)}) = 1

\* ---- the single-stream path ----
\* C37: when a run of the single-stream path sets status to completed,
\* after any pause/resume cycles or earlier runs, the destination file
\* holds the response body once: it is the resource, with no earlier
\* partial or full copy before it (stated for the behaviours in which no
\* two runs of the task overlapped and the network never failed).
C37_SingleStreamBodyOnce ==
    [][\A r \in RunIds :
          /\ runs[r].pc = "single_end" /\ runs'[r].pc = "done"
          /\ status' = "completed" /\ ~overlapped /\ faults = 0
          => dest_file.exists /\ dest_file.data = WholeResource]_vars

\* ---- pause() against the run ----
\* C32: when pause() was called after start() and before the run ended,
\* and no start(), resume() or scheduler start follows, the task never
\* shows status downloading after pause() has returned: while the status
\* pause() has left is paused and the latest run of the task is alive
\* (it began before the pause), no step sets the status to downloading.
C32_PausedStaysPaused ==
    [][/\ status = "paused" /\ ui = "idle"
       /\ nruns > 0 /\ RunAlive(nruns) /\ nruns' = nruns
       => status' # "downloading"]_vars

\* C33: once a run has set status to completed, the status stays completed
\* until start() is invoked again: it changes only when a new _run thread
\* sets it to starting; a pause() that races with the end of the run does
\* not turn completed into paused.
C33_CompletedStaysCompleted ==
    [][status = "completed" /\ status' # "completed" =>
          \E r \in RunIds : run_begin(r)]_vars

\* ---- start() and resume() ----
NoLiveWorker == \A r \in RunIds : ~RunActive(r)
\* start_task launches a _run thread in this step.
StartLaunches == start_task /\ nruns' = nruns + 1
ResumeLaunches == resume_task /\ nruns' = nruns + 1

\* C34: start() on a task that has no live worker and whose status is not
\* completed launches a run, and so does resume() unless the task is
\* scheduled, also for a task restored from the store with the status
\* downloading (stated for the states in which the model has a _run thread
\* left to launch).
C34_StartLaunchesRun ==
    /\ Usable /\ life = "live" /\ NoLiveWorker
    /\ status # "completed" /\ nruns < MaxRuns
    => /\ ENABLED StartLaunches
       /\ status # "scheduled" => ENABLED ResumeLaunches

\* ---- termination ----
\* C35: with a server that supports ranges, reports its size, answers
\* every satisfiable range with the bytes asked for and rejects the others,
\* with no pause and no schedule, a task that has been started once, with
\* any threads >= 1, eventually reaches status completed, its threads
\* being scheduled fairly (stated for the behaviours in which no two runs
\* of the task overlap).
C35_StartedTaskCompletes ==
    (nruns > 0) ~> (status = "completed" \/ overlapped)

\* ---- the user's pause under a schedule ----
\* C31: for a task without repeat whose scheduled_start has passed and
\* whose scheduled_end is unset or ahead, a pause() of the user keeps the
\* task paused across the ticks of the scheduler: a tick on the task that
\* pause() has left paused, with the flag set, starts no run and leaves
\* the status paused.
C31_UserPauseSurvivesTicks ==
    [][/\ refresh_table
       /\ status = "paused" /\ stop_event /\ repeat_interval = 0
       /\ scheduled_start # NoTime /\ scheduled_start <= now
       /\ scheduled_end = NoTime \/ now < scheduled_end
       => nruns' = nruns /\ status' = "paused"]_vars

\* ---- what a restart keeps of a task ----
\* The task that load_tasks makes of the row has the file name and the
\* destination path of the row.
SameFile(row, t) ==
    /\ t.filename = row.filename
    /\ dest_path(t) = <<row.dest_folder, row.filename>>

\* C38: a task saved and restored at the next startup keeps its file name
\* and its destination path: every task that load_tasks restores has the
\* file name and the path of its row, a hint or a title included.
C38_RestoreKeepsFilename ==
    [][OpenWindow =>
          \A i \in DOMAIN tasks' : \A k \in DOMAIN store' :
             SameKey(store'[k], tasks'[i]) => SameFile(store'[k], tasks'[i])]_vars

\* The row was saved from a captured stream: only _handle_media_request
\* gives a task a file name that ends in ".ts".
MediaRow(row) == row.filename[Len(row.filename)] = ".ts"

\* C39: a media task that was saved and restored still has its media_info
\* (its manifest URL), so that its next run takes the HLS pipeline.
C39_RestoreKeepsMediaInfo ==
    [][OpenWindow =>
          \A i \in DOMAIN tasks' : \A k \in DOMAIN store' :
             SameKey(store'[k], tasks'[i]) /\ MediaRow(store'[k])
                => tasks'[i].manifest_url # NoUrl]_vars

\* ---- the buttons of a row ----
\* C40: the row index that the buttons of a row captured is the index of
\* the task the row displays, whatever was added, removed or cleared.
C40_ButtonsActOnTheirRow ==
    phase = "running" => \A j \in DOMAIN buttons : buttons[j] = j

====
